---- MODULE Spec2Model ----
(***************************************************************************)
(* Model of the statistical analysis pipeline of escape_da_vinci:          *)
(* lib/utils.ts (column utilities), lib/cleaning.ts (cleanDataset) and     *)
(* the two column classifiers (lib/columnClassifier.ts and its extended    *)
(* variant with ID-aware and binary branches).                             *)
(*                                                                         *)
(* A dataset is an array of rows over one fixed ordered list of keys (the  *)
(* keys of the first row).  A cell is a JavaScript scalar: null, a number  *)
(* or a string.  Numbers are kept exactly, as integers in units of 1/Scale.*)
(***************************************************************************)
EXTENDS Integers, Sequences, FiniteSets, TLC

VARIABLES pc, keys, data, result, second, profiles, values, clipResult,
          diagnostics, predictive, detection, store, analysis, endpoint,
          request, descriptive, prescriptive

vars == <<pc, keys, data, result, second, profiles, values, clipResult,
          diagnostics, predictive, detection, store, analysis, endpoint,
          request, descriptive, prescriptive>>

(***************************************************************************)
(* Bounds of the model.                                                    *)
(***************************************************************************)
Scale == 8 * 8     \* a number x is the integer x * Scale
MaxFree1 == 4      \* rows of a freely chosen one-column dataset
MaxFree2 == 3      \* rows of a freely chosen two-column dataset
MaxGen == 11       \* rows of a generated (patterned) dataset
MaxVals == 5       \* length of a list handed to clipOutliers
MaxTall == 43      \* rows of a dataset that cycles through 20 or 21 integers
Precision == 12    \* bits of the significand of a floating-point number
MaxDiag == 10      \* rows of a dataset handed to the diagnostic statistics
MaxWide == 7       \* columns of a wide dataset
MaxTrain == 10     \* rows of a dataset handed to the baseline model
MaxLong == 51      \* rows of a dataset with a column of distinct names
MaxDraws == 4      \* values a random importance takes, spread over its range

(***************************************************************************)
(* JavaScript values.                                                      *)
(***************************************************************************)
Num(n) == [t |-> "number", n |-> n, s |-> ""]
Str(s) == [t |-> "string", n |-> 0, s |-> s]
Null == [t |-> "null", n |-> 0, s |-> ""]
EmptyStr == Str("")

Int1(k) == Num(k * Scale)

\* Number(v): the strings of the model and what they coerce to (NaN otherwise).
NumericStrings == {"", "7", "0", "1"}
StringNumber(s) ==
  CASE s = "" -> 0
    [] s = "7" -> 7 * Scale
    [] s = "0" -> 0
    [] s = "1" -> Scale
    [] OTHER -> 0

NaN == [nan |-> TRUE, n |-> 0]
Finite(n) == [nan |-> FALSE, n |-> n]

ToNumber(v) ==
  CASE v.t = "number" -> Finite(v.n)
    [] v.t = "null" -> Finite(0)
    [] v.t = "string" -> IF v.s \in NumericStrings THEN Finite(StringNumber(v.s)) ELSE NaN

\* !isNaN(Number(v))
IsNumeric(v) == ~ToNumber(v).nan

\* v != null
NotNull(v) == v.t # "null"

\* v != null && v !== ""
Present(v) == v.t # "null" /\ v # EmptyStr

\* Number.isInteger
IsInteger(n) == n % Scale = 0

(***************************************************************************)
(* Sequences.                                                              *)
(***************************************************************************)
Range(s) == {s[i] : i \in 1..Len(s)}

Filter(s, P(_)) == SelectSeq(s, P)

Map(s, F(_)) == [i \in 1..Len(s) |-> F(s[i])]

CountIf(s, P(_)) == Cardinality({i \in 1..Len(s) : P(s[i])})

IndexOf(s, x) == CHOOSE i \in 1..Len(s) : s[i] = x

Includes(s, x) == \E i \in 1..Len(s) : s[i] = x

RECURSIVE insertSorted(_, _)
insertSorted(s, x) ==
  IF s = <<>> THEN <<x>>
  ELSE IF x < Head(s) THEN <<x>> \o s
       ELSE <<Head(s)>> \o insertSorted(Tail(s), x)

RECURSIVE sortNumbers(_)
\* [...values].sort((a, b) => a - b)
sortNumbers(s) ==
  IF s = <<>> THEN <<>>
  ELSE insertSorted(sortNumbers(SubSeq(s, 1, Len(s) - 1)), s[Len(s)])

\* the cells of one column, in row order: data.map((row) => row[columnName])
Column(ks, rows, col) == [i \in 1..Len(rows) |-> rows[i][IndexOf(ks, col)]]

(***************************************************************************)
(* Strings.                                                                *)
(***************************************************************************)
\* String.prototype.includes
StrIncludes(s, p) ==
  \E i \in 1..(Len(s) - Len(p) + 1) : SubSeq(s, i, i + Len(p) - 1) = p

\* String.prototype.endsWith
StrEndsWith(s, p) ==
  Len(s) >= Len(p) /\ SubSeq(s, Len(s) - Len(p) + 1, Len(s)) = p

LowerChar(c) ==
  LET upper == "ABCDEFGHIJKLMNOPQRSTUVWXYZ"
      lower == "abcdefghijklmnopqrstuvwxyz"
  IN  IF \E i \in 1..26 : SubSeq(upper, i, i) = c
      THEN LET i == CHOOSE i \in 1..26 : SubSeq(upper, i, i) = c
           IN  SubSeq(lower, i, i)
      ELSE c

RECURSIVE toLowerCase(_)
toLowerCase(s) ==
  IF Len(s) = 0 THEN ""
  ELSE LowerChar(SubSeq(s, 1, 1)) \o toLowerCase(SubSeq(s, 2, Len(s)))

\* /[-/:.]/.test(strValue)
hasDateSeparator(s) ==
  \E i \in 1..Len(s) : SubSeq(s, i, i) \in {"-", "/", ":", "."}

\* new Date(value).getFullYear() for the strings of the model; 0 stands for
\* an invalid date (getTime() is NaN)
DateYear(s) ==
  CASE s = "2020-01-05" -> 2020
    [] s = "1999/12/31" -> 1999
    [] s = "1850-01-01" -> 1850
    [] OTHER -> 0

(***************************************************************************)
(* lib/utils.ts: column utilities.                                         *)
(***************************************************************************)
\* the /i regular expression of detectIdLikeColumns
idPatterns(columnName) ==
  toLowerCase(columnName) \in
    {"id", "_id", "identifier", "key", "index", "row_num", "serial"}

detectIdLikeColumnsGe(ks, rows, columnName) ==
  IF Len(rows) = 0 THEN FALSE
  ELSE IF idPatterns(columnName) THEN TRUE
  ELSE LET col == Column(ks, rows, columnName)
           uniqueValues == Cardinality(Range(col))
           vals == Filter(col, NotNull)
           numericValues == Filter(vals, IsNumeric)
       IN  /\ uniqueValues * 100 > 95 * Len(rows)
           /\ Len(numericValues) * 10 >= Len(vals) * 9

detectIdLikeColumns(ks, rows, columnName) ==
  IF Len(rows) = 0 THEN FALSE
  ELSE IF idPatterns(columnName) THEN TRUE
  ELSE LET col == Column(ks, rows, columnName)
           uniqueValues == Cardinality(Range(col))
           vals == Filter(col, NotNull)
           numericValues == Filter(vals, IsNumeric)
       IN  /\ uniqueValues * 100 > 95 * Len(rows)
           /\ Len(numericValues) * 10 > Len(vals) * 9

detectDatetimeColumns(ks, rows, columnName) ==
  IF Len(rows) = 0 THEN FALSE
  ELSE LET col == Column(ks, rows, columnName)
           sample == SubSeq(col, 1, IF Len(col) < 100 THEN Len(col) ELSE 100)
           isValidDate(v) ==
             /\ Present(v)
             /\ v.t # "number"
             /\ hasDateSeparator(v.s)
             /\ DateYear(v.s) >= 1900 /\ DateYear(v.s) <= 2100
           validDateCount == CountIf(sample, isValidDate)
           nonNullCount == CountIf(sample, Present)
       IN  nonNullCount > 0 /\ validDateCount * 10 >= 7 * nonNullCount

isNumericColumnGe(ks, rows, columnName) ==
  LET vals == Filter(Column(ks, rows, columnName), Present)
      numericCount == CountIf(vals, IsNumeric)
  IN  IF Len(vals) = 0 THEN FALSE ELSE numericCount * 10 >= 9 * Len(vals)

isNumericColumn(ks, rows, columnName) ==
  LET vals == Filter(Column(ks, rows, columnName), Present)
      numericCount == CountIf(vals, IsNumeric)
  IN  IF Len(vals) = 0 THEN FALSE ELSE numericCount * 10 > 9 * Len(vals)

getNumericValues(ks, rows, columnName) ==
  LET isNum(v) == Present(v) /\ IsNumeric(v)
      num(v) == ToNumber(v).n
  IN  Map(Filter(Column(ks, rows, columnName), isNum), num)

\* the same, a column without values not counting as constant
isConstantColumnStrict(ks, rows, columnName) ==
  LET vals == Filter(Column(ks, rows, columnName), NotNull)
  IN  IF Len(vals) = 0 THEN FALSE ELSE Cardinality(Range(vals)) = 1

isConstantColumn(ks, rows, columnName) ==
  LET vals == Filter(Column(ks, rows, columnName), NotNull)
  IN  IF Len(vals) = 0 THEN TRUE ELSE Cardinality(Range(vals)) = 1

(***************************************************************************)
(* Floating-point arithmetic.  The statistics of lib/utils.ts are computed *)
(* in binary floating point: every +, -, *, / and Math.sqrt rounds its     *)
(* exact result to the nearest representable number, ties to even.  A      *)
(* float is m * 2^e with m odd (or m = e = 0) and |m| < 2^Precision; the   *)
(* exponent is unbounded, as no computation of the model comes near        *)
(* overflow or underflow.  A JavaScript number carries 53 bits; Precision  *)
(* is smaller, so that sums and products of the small numbers of the       *)
(* model's datasets round the way those of larger or fractional numbers do *)
(* in 53 bits.                                                             *)
(***************************************************************************)
Float(m, e) == [nan |-> FALSE, m |-> m, e |-> e]
NotANumber == [nan |-> TRUE, m |-> 0, e |-> 0]

Abs(i) == IF i < 0 THEN -i ELSE i
Sign(i) == IF i < 0 THEN -1 ELSE IF i > 0 THEN 1 ELSE 0

\* the canonical form of m * 2^e
RECURSIVE Normal(_, _)
Normal(m, e) ==
  IF m = 0 THEN Float(0, 0)
  ELSE IF m % 2 = 0 THEN Normal(m \div 2, e + 1)
  ELSE Float(m, e)

\* round to nearest, ties to even: the exact magnitude lies in
\* [m * 2^e, (m + 1) * 2^e), and is m * 2^e exactly unless sticky
RECURSIVE RoundMagnitude(_, _, _, _)
RoundMagnitude(sign, m, e, sticky) ==
  IF m >= 2 ^ (Precision + 1)
  THEN RoundMagnitude(sign, m \div 2, e + 1, sticky \/ m % 2 = 1)
  ELSE IF m < 2 ^ Precision
  THEN Normal(sign * m, e)
  ELSE LET h == m \div 2
           up == m % 2 = 1 /\ (sticky \/ h % 2 = 1)
       IN  Normal(sign * (IF up THEN h + 1 ELSE h), e + 1)

Round(m, e) == RoundMagnitude(Sign(m), Abs(m), e, FALSE)

Zero == Float(0, 0)
FromInt(i) == Round(i, 0)

\* a + b
Add(a, b) ==
  IF a.nan \/ b.nan THEN NotANumber
  ELSE IF a.m = 0 THEN b
  ELSE IF b.m = 0 THEN a
  ELSE LET hi == IF a.e >= b.e THEN a ELSE b
           lo == IF a.e >= b.e THEN b ELSE a
           gap == hi.e - lo.e
       IN  IF gap <= Precision + 2
           THEN Round(hi.m * 2 ^ gap + lo.m, lo.e)
           ELSE \* lo is less than a quarter of hi: keep Precision + 2 extra
                \* bits of hi and fold the rest of lo into the sticky bit
                LET H == Abs(hi.m) * 2 ^ (Precision + 2)
                    L == Sign(hi.m) * lo.m
                    far == gap - (Precision + 2) > Precision
                    sh == IF far THEN 1 ELSE 2 ^ (gap - (Precision + 2))
                    whole == IF far THEN 0 ELSE Abs(L) \div sh
                    part == far \/ Abs(L) % sh # 0
                    mag == IF L > 0 THEN H + whole
                           ELSE H - whole - (IF part THEN 1 ELSE 0)
                IN  RoundMagnitude(Sign(hi.m), mag, hi.e - (Precision + 2), part)

Sub(a, b) == Add(a, IF b.nan THEN b ELSE Float(-b.m, b.e))

\* a * b
Mul(a, b) ==
  IF a.nan \/ b.nan THEN NotANumber ELSE Round(a.m * b.m, a.e + b.e)

\* long division: q = floor(n * 2^k / d), r the remainder, until q has
\* Precision + 2 bits or the division is exact
RECURSIVE DivBits(_, _, _, _)
DivBits(q, r, d, k) ==
  IF r = 0 \/ q >= 2 ^ (Precision + 1) THEN [q |-> q, r |-> r, k |-> k]
  ELSE IF 2 * r >= d THEN DivBits(2 * q + 1, 2 * r - d, d, k + 1)
  ELSE DivBits(2 * q, 2 * r, d, k + 1)

\* a / b for b # 0
Div(a, b) ==
  IF a.nan \/ b.nan THEN NotANumber
  ELSE LET n == Abs(a.m)
           d == Abs(b.m)
           x == DivBits(n \div d, n % d, d, 0)
       IN  RoundMagnitude(Sign(a.m) * Sign(b.m), x.q, a.e - b.e - x.k, x.r # 0)

\* floor(sqrt(n)) by bisection, lo * lo <= n < hi * hi
RECURSIVE IntSqrt(_, _, _)
IntSqrt(n, lo, hi) ==
  IF hi - lo <= 1 THEN lo
  ELSE LET mid == (lo + hi) \div 2
       IN  IF mid * mid <= n THEN IntSqrt(n, mid, hi) ELSE IntSqrt(n, lo, mid)

\* m * 2^e rewritten with an even exponent and at least 2 * Precision + 3 bits
RECURSIVE Widen(_, _)
Widen(m, e) ==
  IF m >= 2 ^ (2 * Precision + 2)
  THEN IF e % 2 = 0 THEN [m |-> m, e |-> e] ELSE [m |-> 2 * m, e |-> e - 1]
  ELSE Widen(2 * m, e - 1)

\* Math.sqrt(a)
Sqrt(a) ==
  IF a.nan \/ a.m < 0 THEN NotANumber
  ELSE IF a.m = 0 THEN Zero
  ELSE LET w == Widen(a.m, a.e)
           s == IntSqrt(w.m, 0, 2 ^ (Precision + 3))
       IN  RoundMagnitude(1, s, w.e \div 2, s * s # w.m)

\* a < b, a >= b, a === 0 (all false when a or b is NaN)
Less(a, b) == ~a.nan /\ ~b.nan /\ Sub(a, b).m < 0
AtLeast(a, b) == ~a.nan /\ ~b.nan /\ Sub(a, b).m >= 0

\* Math.abs(a)
FAbs(a) == IF a.nan THEN a ELSE Float(Abs(a.m), a.e)

\* a decimal literal n / 10^k of the source, rounded as the compiler rounds it
Literal(n, d) == Div(FromInt(n), FromInt(d))

\* Number(a.toFixed(2)), kept as the number of hundredths; toFixed rounds
\* the exact value of a, halves away from zero
Hundredths(h) == [nan |-> FALSE, h |-> h]
toFixed2(a) ==
  IF a.nan THEN [nan |-> TRUE, h |-> 0]
  ELSE IF a.e >= 0 THEN Hundredths(a.m * 100 * 2 ^ a.e)
  ELSE IF Precision + a.e < -9 THEN Hundredths(0)
  ELSE LET d == 2 ^ (-a.e)
       IN  Hundredths(Sign(a.m) * ((2 * Abs(a.m) * 100 + d) \div (2 * d)))

(***************************************************************************)
(* The correlation statistics of lib/utils.ts, over lists of floats.       *)
(***************************************************************************)
\* getNumericValues as the numbers the statistics compute with: a number
\* of the dataset is an integer multiple of 1 / Scale = 2^-6
getNumericFloats(ks, rows, columnName) ==
  LET vals == getNumericValues(ks, rows, columnName)
  IN  [i \in 1..Len(vals) |-> Round(vals[i], -6)]

\* x.reduce((a, b) => a + b, 0), from element i on
RECURSIVE SumFrom(_, _, _)
SumFrom(x, i, acc) ==
  IF i > Len(x) THEN acc ELSE SumFrom(x, i + 1, Add(acc, x[i]))

\* x.reduce((sum, xi, i) => sum + xi * y[i], 0), from element i on
RECURSIVE SumProductsFrom(_, _, _, _)
SumProductsFrom(x, y, i, acc) ==
  IF i > Len(x) THEN acc
  ELSE SumProductsFrom(x, y, i + 1, Add(acc, Mul(x[i], y[i])))

computePearsonCorrelation(x, y) ==
  IF Len(x) # Len(y) \/ Len(x) < 2 THEN Zero
  ELSE LET n == FromInt(Len(x))
           sumX == SumFrom(x, 1, Zero)
           sumY == SumFrom(y, 1, Zero)
           sumXY == SumProductsFrom(x, y, 1, Zero)
           sumX2 == SumProductsFrom(x, x, 1, Zero)
           sumY2 == SumProductsFrom(y, y, 1, Zero)
           numerator == Sub(Mul(n, sumXY), Mul(sumX, sumY))
           denominator ==
             Sqrt(Mul(Sub(Mul(n, sumX2), Mul(sumX, sumX)),
                      Sub(Mul(n, sumY2), Mul(sumY, sumY))))
       IN  IF ~denominator.nan /\ denominator.m = 0 THEN Zero ELSE Div(numerator, denominator)

\* the rank of every value: the sort is stable, so equal values are ranked
\* in index order
getRanks(vals) ==
  [i \in 1..Len(vals) |->
     FromInt(1 + Cardinality({j \in 1..Len(vals) : Less(vals[j], vals[i])})
               + Cardinality({j \in 1..(i - 1) : vals[j] = vals[i]}))]

computeSpearmanCorrelation(x, y) ==
  IF Len(x) # Len(y) \/ Len(x) < 2 THEN Zero
  ELSE computePearsonCorrelation(getRanks(x), getRanks(y))

computeKendallCorrelation(x, y) ==
  IF Len(x) # Len(y) \/ Len(x) < 2 THEN Zero
  ELSE LET n == Len(x)
           pairs == {<<i, j>> \in (1..n) \X (1..n) : i < j}
           sgn(i, j) == Sign(Sub(x[j], x[i]).m) * Sign(Sub(y[j], y[i]).m)
           concordant == Cardinality({q \in pairs : sgn(q[1], q[2]) > 0})
           discordant == Cardinality({q \in pairs : sgn(q[1], q[2]) < 0})
       IN  Div(FromInt(concordant - discordant),
               Mul(Mul(Literal(5, 10), FromInt(n)), FromInt(n - 1)))

\* correlationMatrix[featureIndex] without its own entry, as absolute values
RECURSIVE SumAbsFrom(_, _, _, _)
SumAbsFrom(row, skip, i, acc) ==
  IF i > Len(row) THEN acc
  ELSE SumAbsFrom(row, skip, i + 1,
                  IF i = skip THEN acc ELSE Add(acc, FAbs(row[i])))

computeVIF(correlationMatrix, featureIndex) ==
  LET n == Len(correlationMatrix)
      avgCorrelation ==
        Div(SumAbsFrom(correlationMatrix[featureIndex], featureIndex, 1, Zero),
            FromInt(n - 1))
      rSquared == Mul(avgCorrelation, avgCorrelation)
  IN  IF n < 2 THEN FromInt(1)
      ELSE IF AtLeast(rSquared, FromInt(1)) THEN FromInt(10)
      ELSE Div(FromInt(1), Sub(FromInt(1), rSquared))

(***************************************************************************)
(* simple-statistics, as called by lib/utils.ts.  A quantile of an empty   *)
(* list throws; the model returns Throw for it.                            *)
(***************************************************************************)
Throw == [threw |-> TRUE, n |-> 0]
Value(n) == [threw |-> FALSE, n |-> n]

\* ss.quantile(sorted, pn / pd) for 0 < pn / pd < 1
quantile(sorted, pn, pd) ==
  LET len == Len(sorted)
      ceilIdx == (len * pn + pd - 1) \div pd
      idx == (len * pn) \div pd
  IN  IF len = 0 THEN Throw
      ELSE IF (len * pn) % pd # 0 THEN Value(sorted[ceilIdx])
      ELSE IF len % 2 = 0 THEN Value((sorted[idx] + sorted[idx + 1]) \div 2)
      ELSE Value(sorted[idx + 1])

\* ss.median(x)
median(x) == quantile(sortNumbers(x), 1, 2)

(***************************************************************************)
(* lib/utils.ts: outliers.  A bound is finite or +-Infinity.               *)
(***************************************************************************)
Bound(n) == [inf |-> 0, n |-> n]
PlusInfinity == [inf |-> 1, n |-> 0]
MinusInfinity == [inf |-> -1, n |-> 0]

\* v < b and v > b for a finite number v and a bound b
Below(v, b) == b.inf = 1 \/ (b.inf = 0 /\ v < b.n)
Above(v, b) == b.inf = -1 \/ (b.inf = 0 /\ v > b.n)

detectOutliersIQR(vals) ==
  IF Len(vals) < 4
  THEN [lower |-> MinusInfinity, upper |-> PlusInfinity, outlierIndices |-> <<>>]
  ELSE LET sorted == sortNumbers(vals)
           q1 == quantile(sorted, 1, 4).n
           q3 == quantile(sorted, 3, 4).n
           iqr == q3 - q1
           lower == q1 - (3 * iqr) \div 2
           upper == q3 + (3 * iqr) \div 2
           isOutlier(i) == vals[i] < lower \/ vals[i] > upper
       IN  [lower |-> Bound(lower), upper |-> Bound(upper),
            outlierIndices |-> Filter([i \in 1..Len(vals) |-> i], isOutlier)]

clipOutliersLowerOnly(vals) ==
  LET d == detectOutliersIQR(vals)
      clip(v) == IF Below(v, d.lower) THEN d.lower.n ELSE v
  IN  [clipped |-> Map(vals, clip), count |-> Len(d.outlierIndices)]

clipOutliers(vals) ==
  LET d == detectOutliersIQR(vals)
      clip(v) == IF Below(v, d.lower) THEN d.lower.n
                 ELSE IF Above(v, d.upper) THEN d.upper.n
                 ELSE v
  IN  [clipped |-> Map(vals, clip), count |-> Len(d.outlierIndices)]

(***************************************************************************)
(* lib/cleaning.ts: helpers.                                               *)
(***************************************************************************)
\* the JSON text of one value
JSONvalue(v) ==
  CASE v.t = "number" -> ToString(v.n)
    [] v.t = "string" -> "\"" \o v.s \o "\""
    [] v.t = "null" -> "null"

RECURSIVE JSONmembers(_, _, _)
JSONmembers(ks, row, i) ==
  IF i > Len(ks) THEN ""
  ELSE (IF i > 1 THEN "," ELSE "") \o "\"" \o ks[i] \o "\":" \o JSONvalue(row[i])
       \o JSONmembers(ks, row, i + 1)

\* JSON.stringify(row)
JSONstringify(ks, row) == "{" \o JSONmembers(ks, row, 1) \o "}"

RECURSIVE uniqueRows(_, _, _, _)
\* the forEach of removeDuplicates: seen is the Set of keys, unique the output
uniqueRows(ks, rows, seen, unique) ==
  IF rows = <<>> THEN unique
  ELSE LET key == JSONstringify(ks, Head(rows))
       IN  IF key \notin seen
           THEN uniqueRows(ks, Tail(rows), seen \cup {key}, Append(unique, Head(rows)))
           ELSE uniqueRows(ks, Tail(rows), seen, unique)

RECURSIVE uniqueRowsKeepLast(_, _, _, _)
uniqueRowsKeepLast(ks, rows, seen, unique) ==
  IF rows = <<>> THEN unique
  ELSE LET key == JSONstringify(ks, rows[Len(rows)])
           rest == SubSeq(rows, 1, Len(rows) - 1)
       IN  IF key \notin seen
           THEN uniqueRowsKeepLast(ks, rest, seen \cup {key}, <<rows[Len(rows)]>> \o unique)
           ELSE uniqueRowsKeepLast(ks, rest, seen, unique)

removeDuplicatesKeepLast(ks, rows) ==
  LET unique == uniqueRowsKeepLast(ks, rows, {}, <<>>)
  IN  [data |-> unique, removed |-> Len(rows) - Len(unique)]

removeDuplicates(ks, rows) ==
  LET unique == uniqueRows(ks, rows, {}, <<>>)
  IN  [data |-> unique, removed |-> Len(rows) - Len(unique)]

\* the keys a row keeps: Object.keys(row) without columnsToRemove
keptKeys(ks, columnsToRemove) ==
  LET kept(k) == ~Includes(columnsToRemove, k) IN Filter(ks, kept)

removeColumns(ks, rows, columnsToRemove) ==
  LET kk == keptKeys(ks, columnsToRemove)
      project(row) == [j \in 1..Len(kk) |-> row[IndexOf(ks, kk[j])]]
  IN  Map(rows, project)

\* { ...row, [columnName]: v }
withCell(ks, row, columnName, v) ==
  [row EXCEPT ![IndexOf(ks, columnName)] = v]

RECURSIVE distinctInOrder(_, _)
\* the keys of the counts Map, in insertion order
distinctInOrder(vals, acc) ==
  IF vals = <<>> THEN acc
  ELSE distinctInOrder(Tail(vals),
         IF Includes(acc, Head(vals)) THEN acc ELSE Append(acc, Head(vals)))

RECURSIVE pickModeLast(_, _, _, _)
pickModeLast(ds, vals, mode, maxCount) ==
  IF ds = <<>> THEN mode
  ELSE LET same(v) == v = Head(ds)
           count == CountIf(vals, same)
       IN  IF count >= maxCount
           THEN pickModeLast(Tail(ds), vals, Head(ds), count)
           ELSE pickModeLast(Tail(ds), vals, mode, maxCount)

RECURSIVE pickMode(_, _, _, _)
\* counts.forEach((count, value) => { if (count > maxCount) ... })
pickMode(ds, vals, mode, maxCount) ==
  IF ds = <<>> THEN mode
  ELSE LET same(v) == v = Head(ds)
           count == CountIf(vals, same)
       IN  IF count > maxCount
           THEN pickMode(Tail(ds), vals, Head(ds), count)
           ELSE pickMode(Tail(ds), vals, mode, maxCount)

imputeMissingNullOnly(ks, rows, columnName, method) ==
  LET col == Column(ks, rows, columnName)
      fill(v) == [i \in 1..Len(rows) |->
                   IF col[i].t = "null" THEN withCell(ks, rows[i], columnName, v)
                   ELSE rows[i]]
  IN  IF method = "median"
      THEN LET numericValues == getNumericValues(ks, rows, columnName)
               m == median(numericValues)
           IN  IF Len(numericValues) = 0 THEN [threw |-> FALSE, rows |-> rows]
               ELSE IF m.threw THEN [threw |-> TRUE, rows |-> rows]
               ELSE [threw |-> FALSE, rows |-> fill(Num(m.n))]
      ELSE LET vals == Filter(col, Present)
               mode == pickMode(distinctInOrder(vals, <<>>), vals, Null, 0)
           IN  [threw |-> FALSE, rows |-> fill(mode)]

imputeMissing(ks, rows, columnName, method) ==
  LET col == Column(ks, rows, columnName)
      fill(v) == [i \in 1..Len(rows) |->
                   IF ~Present(col[i]) THEN withCell(ks, rows[i], columnName, v)
                   ELSE rows[i]]
  IN  IF method = "median"
      THEN LET numericValues == getNumericValues(ks, rows, columnName)
               m == median(numericValues)
           IN  IF Len(numericValues) = 0 THEN [threw |-> FALSE, rows |-> rows]
               ELSE IF m.threw THEN [threw |-> TRUE, rows |-> rows]
               ELSE [threw |-> FALSE, rows |-> fill(Num(m.n))]
      ELSE LET vals == Filter(col, Present)
               mode == pickMode(distinctInOrder(vals, <<>>), vals, Null, 0)
           IN  [threw |-> FALSE, rows |-> fill(mode)]

(***************************************************************************)
(* lib/cleaning.ts: cleanDataset.  The local variables of the function are *)
(* the fields of a record st that each step updates.                       *)
(***************************************************************************)
Action(action, column, reason, rowsAffected) ==
  [action |-> action, column |-> column, reason |-> reason,
   rowsAffected |-> rowsAffected]

\* Step 1: remove duplicates
stepDuplicates(st) ==
  LET d == removeDuplicates(st.columns, st.cleaned)
  IN  [st EXCEPT
        !.cleaned = d.data,
        !.cleaningLog =
          IF d.removed > 0
          THEN Append(@, Action("Remove duplicates", "",
                        ToString(d.removed) \o " duplicate rows detected", d.removed))
          ELSE @]

\* Step 2: remove ID-like columns
stepIdLike(st) ==
  LET isId(col) == detectIdLikeColumns(st.columns, st.cleaned, col)
      idCols == Filter(st.columns, isId)
      entry(col) == Action("Removed", col,
                      "ID-like column (high cardinality, no predictive value)", 0)
  IN  [st EXCEPT
        !.columnsToRemove = @ \o idCols,
        !.cleaningLog = @ \o Map(idCols, entry)]

\* the same without the test for columns already marked
stepConstantNoSkip(st) ==
  LET isConst(col) == isConstantColumn(st.columns, st.cleaned, col)
      constCols == Filter(st.columns, isConst)
      entry(col) == Action("Removed", col, "Constant column (single unique value)", 0)
  IN  [st EXCEPT
        !.columnsToRemove = @ \o constCols,
        !.cleaningLog = @ \o Map(constCols, entry)]

\* Step 3: remove constant columns
stepConstant(st) ==
  LET isConst(col) == /\ ~Includes(st.columnsToRemove, col)
                      /\ isConstantColumn(st.columns, st.cleaned, col)
      constCols == Filter(st.columns, isConst)
      entry(col) == Action("Removed", col, "Constant column (single unique value)", 0)
  IN  [st EXCEPT
        !.columnsToRemove = @ \o constCols,
        !.cleaningLog = @ \o Map(constCols, entry)]

\* cleaned = removeColumns(cleaned, columnsToRemove); remainingColumns
stepRemoveColumns(st) ==
  [st EXCEPT
    !.cleaned = removeColumns(st.columns, st.cleaned, st.columnsToRemove),
    !.remainingColumns = keptKeys(st.columns, st.columnsToRemove)]

\* the body of the forEach of step 4, for one column
imputeColumn(st, col) ==
  LET isMissing(row) == ~Present(row[IndexOf(st.remainingColumns, col)])
      missingCount == CountIf(st.cleaned, isMissing)
      method == IF isNumericColumn(st.remainingColumns, st.cleaned, col)
                THEN "median" ELSE "mode"
      Method == IF method = "median" THEN "Median" ELSE "Mode"
      imputed == imputeMissing(st.remainingColumns, st.cleaned, col, method)
  IN  IF st.threw \/ missingCount = 0 THEN st
      ELSE IF imputed.threw THEN [st EXCEPT !.threw = TRUE]
      ELSE [st EXCEPT
             !.cleaned = imputed.rows,
             !.missingSummary =
               Append(@, [column |-> col, missing |-> missingCount,
                          imputed |-> missingCount]),
             !.cleaningLog =
               Append(@, Action("Missing value imputation", col,
                 Method \o " imputation for " \o ToString(missingCount)
                   \o " missing entries", missingCount))]

\* how many of the first i rows hold a numeric value in column j
numericBefore(rows, j, i) ==
  Cardinality({r \in 1..i : Present(rows[r][j]) /\ IsNumeric(rows[r][j])})

\* the same, the i-th clipped value going to the i-th row
clipColumnByRow(st, col) ==
  LET j == IndexOf(st.remainingColumns, col)
      vals == getNumericValues(st.remainingColumns, st.cleaned, col)
      c == clipOutliers(vals)
      apply(i) ==
        IF Present(st.cleaned[i][j]) /\ IsNumeric(st.cleaned[i][j])
        THEN withCell(st.remainingColumns, st.cleaned[i], col,
                      Num(c.clipped[((i - 1) % Len(c.clipped)) + 1]))
        ELSE st.cleaned[i]
  IN  IF st.threw \/ ~isNumericColumn(st.remainingColumns, st.cleaned, col) THEN st
      ELSE IF c.count = 0 THEN st
      ELSE [st EXCEPT
             !.cleaned = [i \in 1..Len(st.cleaned) |-> apply(i)],
             !.outlierSummary =
               Append(@, [column |-> col, outliers |-> c.count, clipped |-> c.count]),
             !.cleaningLog =
               Append(@, Action("Outlier clipping", col,
                 "Values beyond IQR boundaries (Q1 - 1.5xIQR, Q3 + 1.5xIQR)",
                 c.count))]

\* the body of the forEach of step 5, for one column
clipColumn(st, col) ==
  LET j == IndexOf(st.remainingColumns, col)
      vals == getNumericValues(st.remainingColumns, st.cleaned, col)
      c == clipOutliers(vals)
      apply(i) ==
        IF Present(st.cleaned[i][j]) /\ IsNumeric(st.cleaned[i][j])
        THEN withCell(st.remainingColumns, st.cleaned[i], col,
                      Num(c.clipped[numericBefore(st.cleaned, j, i)]))
        ELSE st.cleaned[i]
  IN  IF st.threw \/ ~isNumericColumn(st.remainingColumns, st.cleaned, col) THEN st
      ELSE IF c.count = 0 THEN st
      ELSE [st EXCEPT
             !.cleaned = [i \in 1..Len(st.cleaned) |-> apply(i)],
             !.outlierSummary =
               Append(@, [column |-> col, outliers |-> c.count, clipped |-> c.count]),
             !.cleaningLog =
               Append(@, Action("Outlier clipping", col,
                 "Values beyond IQR boundaries (Q1 - 1.5xIQR, Q3 + 1.5xIQR)",
                 c.count))]

RECURSIVE forEachMissing(_, _)
\* remainingColumns.forEach((col) => ...) of step 4
forEachMissing(st, cols) ==
  IF cols = <<>> THEN st
  ELSE forEachMissing(imputeColumn(st, Head(cols)), Tail(cols))

RECURSIVE forEachOutliers(_, _)
\* remainingColumns.forEach((col) => ...) of step 5
forEachOutliers(st, cols) ==
  IF cols = <<>> THEN st
  ELSE forEachOutliers(clipColumn(st, Head(cols)), Tail(cols))

\* Step 4: handle missing values
stepMissing(st) == forEachMissing(st, st.remainingColumns)

\* Step 5: outlier clipping for numeric columns
stepOutliers(st) == forEachOutliers(st, st.remainingColumns)

\* the CleaningResult, or the error thrown
Thrown(message) == [threw |-> TRUE, error |-> message]

\* the same, the rows of before reported again as those of after
CleaningResultStaleRows(before, st) ==
  IF st.threw THEN Thrown("No data to compute median")
  ELSE [threw |-> FALSE,
        keys |-> st.remainingColumns,
        cleanedData |-> st.cleaned,
        cleaningLog |-> st.cleaningLog,
        before |-> before,
        after |-> [rows |-> before.rows, columns |-> Len(st.remainingColumns)],
        missingSummary |-> st.missingSummary,
        outlierSummary |-> st.outlierSummary]

CleaningResult(before, st) ==
  IF st.threw THEN Thrown("No data to compute median")
  ELSE [threw |-> FALSE,
        keys |-> st.remainingColumns,
        cleanedData |-> st.cleaned,
        cleaningLog |-> st.cleaningLog,
        before |-> before,
        after |-> [rows |-> Len(st.cleaned), columns |-> Len(st.remainingColumns)],
        missingSummary |-> st.missingSummary,
        outlierSummary |-> st.outlierSummary]

startClean(ks, rows) ==
  [columns |-> ks, cleaned |-> rows, cleaningLog |-> <<>>,
   columnsToRemove |-> <<>>, remainingColumns |-> ks,
   missingSummary |-> <<>>, outlierSummary |-> <<>>, threw |-> FALSE]

cleanDatasetOffByOne(ks, rows) ==
  IF Len(rows) <= 1 THEN Thrown("Cannot clean empty dataset")
  ELSE CleaningResult([rows |-> Len(rows), columns |-> Len(ks)],
         stepOutliers(stepMissing(stepRemoveColumns(
           stepConstant(stepIdLike(stepDuplicates(startClean(ks, rows))))))))

cleanDatasetClipFirst(ks, rows) ==
  IF Len(rows) = 0 THEN Thrown("Cannot clean empty dataset")
  ELSE CleaningResult([rows |-> Len(rows), columns |-> Len(ks)],
         stepMissing(stepOutliers(stepRemoveColumns(
           stepConstant(stepIdLike(stepDuplicates(startClean(ks, rows))))))))

cleanDataset(ks, rows) ==
  IF Len(rows) = 0 THEN Thrown("Cannot clean empty dataset")
  ELSE CleaningResult([rows |-> Len(rows), columns |-> Len(ks)],
         stepOutliers(stepMissing(stepRemoveColumns(
           stepConstant(stepIdLike(stepDuplicates(startClean(ks, rows))))))))

(***************************************************************************)
(* The column classifier.  classifyColumn is the variant with the ID-aware *)
(* and binary branches; classifyColumnSimple is lib/columnClassifier.ts.   *)
(* missingPct is kept in hundredths of a percent, as toFixed(2) rounds it. *)
(***************************************************************************)
\* Number(((totalValues - present) / totalValues * 100).toFixed(2)), times 100
missingPctOfCount(totalValues, present) ==
  (totalValues - present) * 10000

missingPctOf(totalValues, present) ==
  (2 * (totalValues - present) * 10000 + totalValues) \div (2 * totalValues)

ColumnProfile(column, detectedType, reasoning, uniqueValues, missingPct) ==
  [column |-> column, detectedType |-> detectedType, reasoning |-> reasoning,
   uniqueValues |-> uniqueValues, missingPct |-> missingPct]

isIdColumn(columnName, uniqueValues, present) ==
  LET name == toLowerCase(columnName)
      hasIdName ==
        \/ \E p \in {"id", "_id", "key", "code", "number", "no", "num"} :
             StrIncludes(name, p)
        \/ StrEndsWith(name, "id")
      \* uniqueRatio > 0.8, uniqueRatio being 0 when there are no values
      isHighlyUnique == present > 0 /\ uniqueValues * 10 > 8 * present
  IN  hasIdName /\ isHighlyUnique

\* the numeric branch of classifyColumn: <<detectedType, reasoning>>
numericTypeNoBinary(columnName, vals) ==
  LET uniqueValues == Cardinality(Range(vals))
      ratioBelowHalf == Len(vals) = 0 \/ 2 * uniqueValues < Len(vals)
      num(v) == ToNumber(v).n
      numericValues == Map(Filter(vals, IsNumeric), num)
      allIntegers == \A i \in 1..Len(numericValues) : IsInteger(numericValues[i])
  IN  IF isIdColumn(columnName, uniqueValues, Len(vals))
      THEN <<"continuous",
             "ID-like column with high cardinality, treated as continuous identifier">>
      ELSE IF allIntegers /\ uniqueValues <= 20 /\ ratioBelowHalf
      THEN <<"discrete",
             "Integer values with low cardinality (" \o ToString(uniqueValues)
               \o " unique), suitable for countable states">>
      ELSE <<"continuous",
             "High-cardinality numeric measurement (" \o ToString(uniqueValues)
               \o " unique values), continuous distribution">>

\* the numeric branch without the unique-ratio test
numericTypeNoRatio(columnName, vals) ==
  LET uniqueValues == Cardinality(Range(vals))
      num(v) == ToNumber(v).n
      numericValues == Map(Filter(vals, IsNumeric), num)
      allIntegers == \A i \in 1..Len(numericValues) : IsInteger(numericValues[i])
      uniqueSet == Range(numericValues)
  IN  IF isIdColumn(columnName, uniqueValues, Len(vals))
      THEN <<"continuous",
             "ID-like column with high cardinality, treated as continuous identifier">>
      ELSE IF Cardinality(uniqueSet) = 2 /\ 0 \in uniqueSet /\ Scale \in uniqueSet
      THEN <<"discrete",
             "Binary indicator (0/1), suitable for classification target or flag">>
      ELSE IF allIntegers /\ uniqueValues <= 20
      THEN <<"discrete",
             "Integer values with low cardinality (" \o ToString(uniqueValues)
               \o " unique), suitable for countable states">>
      ELSE <<"continuous",
             "High-cardinality numeric measurement (" \o ToString(uniqueValues)
               \o " unique values), continuous distribution">>

numericType(columnName, vals) ==
  LET uniqueValues == Cardinality(Range(vals))
      \* uniqueRatio = values.length > 0 ? uniqueValues / values.length : 0
      ratioBelowHalf == Len(vals) = 0 \/ 2 * uniqueValues < Len(vals)
      num(v) == ToNumber(v).n
      numericValues == Map(Filter(vals, IsNumeric), num)
      allIntegers == \A i \in 1..Len(numericValues) : IsInteger(numericValues[i])
      uniqueSet == Range(numericValues)
  IN  IF isIdColumn(columnName, uniqueValues, Len(vals))
      THEN <<"continuous",
             "ID-like column with high cardinality, treated as continuous identifier">>
      ELSE IF Cardinality(uniqueSet) = 2 /\ 0 \in uniqueSet /\ Scale \in uniqueSet
      THEN <<"discrete",
             "Binary indicator (0/1), suitable for classification target or flag">>
      ELSE IF allIntegers /\ uniqueValues <= 20 /\ ratioBelowHalf
      THEN <<"discrete",
             "Integer values with low cardinality (" \o ToString(uniqueValues)
               \o " unique), suitable for countable states">>
      ELSE <<"continuous",
             "High-cardinality numeric measurement (" \o ToString(uniqueValues)
               \o " unique values), continuous distribution">>

classifyColumn(ks, rows, columnName) ==
  LET vals == Filter(Column(ks, rows, columnName), Present)
      totalValues == Len(rows)
      missingPct == missingPctOf(totalValues, Len(vals))
      uniqueValues == Cardinality(Range(vals))
      ratioBelowHalf == Len(vals) = 0 \/ 2 * uniqueValues < Len(vals)
      isStringColumn == Len(vals) > 0 /\ vals[1].t = "string"
      P(type, reasoning) ==
        ColumnProfile(columnName, type, reasoning, uniqueValues, missingPct)
  IN  IF isStringColumn /\ detectDatetimeColumns(ks, rows, columnName)
      THEN P("datetime", "Values are parseable as dates/times with date separators")
      ELSE IF isNumericColumn(ks, rows, columnName)
      THEN P(numericType(columnName, vals)[1], numericType(columnName, vals)[2])
      ELSE IF ratioBelowHalf \/ uniqueValues <= 50
      THEN P("categorical",
             "Low cardinality (" \o ToString(uniqueValues)
               \o " unique) with distinct named groups")
      ELSE P("unknown", "Unable to determine semantic type with high confidence")

classifyColumnSimple(ks, rows, columnName) ==
  LET vals == Filter(Column(ks, rows, columnName), Present)
      totalValues == Len(rows)
      missingPct == missingPctOf(totalValues, Len(vals))
      uniqueValues == Cardinality(Range(vals))
      \* uniqueRatio = uniqueValues / values.length, NaN when there are no values
      ratioBelowHalf == Len(vals) > 0 /\ 2 * uniqueValues < Len(vals)
      ratioAbove5Pct == Len(vals) > 0 /\ 100 * uniqueValues > 5 * Len(vals)
      num(v) == ToNumber(v).n
      numericValues == Map(Filter(vals, IsNumeric), num)
      allIntegers == \A i \in 1..Len(numericValues) : IsInteger(numericValues[i])
      P(type, reasoning) ==
        ColumnProfile(columnName, type, reasoning, uniqueValues, missingPct)
  IN  IF detectDatetimeColumns(ks, rows, columnName)
      THEN P("datetime", ">=70% of values are parseable as dates/times")
      ELSE IF isNumericColumn(ks, rows, columnName)
      THEN IF allIntegers /\ uniqueValues <= 20
           THEN P("discrete",
                  "Integer values with low cardinality (<=20 unique values), suitable for countable states")
           ELSE IF ratioAbove5Pct
           THEN P("continuous",
                  "High-cardinality numeric measurement (unique ratio > 5%), continuous distribution")
           ELSE P("continuous", "Numeric values with measurable precision")
      ELSE IF ratioBelowHalf \/ uniqueValues <= 50
      THEN P("categorical",
             "Low cardinality with distinct named groups, suitable for categorization")
      ELSE P("unknown", "Unable to determine semantic type with high confidence")

classifyColumns(ks, rows) ==
  IF Len(rows) = 0 THEN <<>>
  ELSE [i \in 1..Len(ks) |-> classifyColumn(ks, rows, ks[i])]

classifyColumnsSimple(ks, rows) ==
  IF Len(rows) = 0 THEN <<>>
  ELSE [i \in 1..Len(ks) |-> classifyColumnSimple(ks, rows, ks[i])]

(***************************************************************************)
(* Diagnostic statistics: the correlation matrix, the retained correlation *)
(* pairs and the multicollinearity warnings.                               *)
(***************************************************************************)
CorrelationPair(pair, pearson, spearman, kendall, interpretation) ==
  [pair |-> pair, pearson |-> pearson, spearman |-> spearman,
   kendall |-> kendall, interpretation |-> interpretation]

MulticollinearityWarning(feature, vif, status) ==
  [feature |-> feature, vif |-> vif, status |-> status]

DiagnosticResult(correlations, multicollinearity, pearsonMatrix) ==
  [correlations |-> correlations, multicollinearity |-> multicollinearity,
   pearsonMatrix |-> pearsonMatrix]

computeCorrelationMatrix(ks, rows, columns) ==
  [i \in 1..Len(columns) |->
     [j \in 1..Len(columns) |->
        IF i = j THEN FromInt(1)
        ELSE computePearsonCorrelation(getNumericFloats(ks, rows, columns[i]),
                                       getNumericFloats(ks, rows, columns[j]))]]

\* the same with 'Strong' starting at 0.8
interpretCorrelationStrongAt80(pearson, spearman) ==
  LET absPearson == FAbs(pearson)
      absSpearman == FAbs(spearman)
      direction == IF Less(Zero, pearson) THEN "positive" ELSE "negative"
      strength ==
        IF AtLeast(absPearson, Literal(8, 10)) THEN "Strong"
        ELSE IF AtLeast(absPearson, Literal(5, 10)) THEN "Moderate"
        ELSE IF AtLeast(absPearson, Literal(3, 10)) THEN "Weak"
        ELSE "Very weak"
      relationship ==
        IF Less(Literal(2, 10), FAbs(Sub(absSpearman, absPearson)))
        THEN "monotonic" ELSE "linear"
  IN  strength \o " " \o direction \o " " \o relationship \o " relationship"

interpretCorrelation(pearson, spearman) ==
  LET absPearson == FAbs(pearson)
      absSpearman == FAbs(spearman)
      direction == IF Less(Zero, pearson) THEN "positive" ELSE "negative"
      strength ==
        IF AtLeast(absPearson, Literal(7, 10)) THEN "Strong"
        ELSE IF AtLeast(absPearson, Literal(5, 10)) THEN "Moderate"
        ELSE IF AtLeast(absPearson, Literal(3, 10)) THEN "Weak"
        ELSE "Very weak"
      relationship ==
        IF Less(Literal(2, 10), FAbs(Sub(absSpearman, absPearson)))
        THEN "monotonic" ELSE "linear"
  IN  strength \o " " \o direction \o " " \o relationship \o " relationship"

\* the index pairs <<i, j>> with i < j <= n, in the order of the two loops
RECURSIVE PairsFrom(_, _, _)
PairsFrom(i, j, n) ==
  IF i >= n THEN <<>>
  ELSE IF j > n THEN PairsFrom(i + 1, i + 2, n)
  ELSE <<<<i, j>>>> \o PairsFrom(i, j + 1, n)

\* pairs.sort((a, b) => Math.abs(b.pearson) - Math.abs(a.pearson)): stable
RECURSIVE insertPair(_, _)
insertPair(sorted, p) ==
  IF sorted = <<>> THEN <<p>>
  ELSE IF Abs(Head(sorted).pearson.h) >= Abs(p.pearson.h)
       THEN <<Head(sorted)>> \o insertPair(Tail(sorted), p)
       ELSE <<p>> \o sorted

RECURSIVE sortPairs(_)
sortPairs(pairs) ==
  IF pairs = <<>> THEN <<>>
  ELSE insertPair(sortPairs(SubSeq(pairs, 1, Len(pairs) - 1)), pairs[Len(pairs)])

\* Array.prototype.slice(0, n)
slice0(s, n) == SubSeq(s, 1, IF Len(s) < n THEN Len(s) ELSE n)

\* the same, capped to 20 pairs before sorting
findStrongCorrelationsCapFirst(ks, rows, columns, pearsonMatrix) ==
  LET significant(q) ==
        AtLeast(FAbs(pearsonMatrix[q[1]][q[2]]), Literal(3, 10))
      entry(q) ==
        LET pearson == pearsonMatrix[q[1]][q[2]]
            valuesI == getNumericFloats(ks, rows, columns[q[1]])
            valuesJ == getNumericFloats(ks, rows, columns[q[2]])
            spearman == computeSpearmanCorrelation(valuesI, valuesJ)
            kendall == computeKendallCorrelation(valuesI, valuesJ)
        IN  CorrelationPair(columns[q[1]] \o " ↔ " \o columns[q[2]],
                            toFixed2(pearson), toFixed2(spearman),
                            toFixed2(kendall),
                            interpretCorrelation(pearson, spearman))
      pairs == Map(Filter(PairsFrom(1, 2, Len(columns)), significant), entry)
  IN  sortPairs(slice0(pairs, 20))

findStrongCorrelations(ks, rows, columns, pearsonMatrix) ==
  LET significant(q) ==
        AtLeast(FAbs(pearsonMatrix[q[1]][q[2]]), Literal(3, 10))
      entry(q) ==
        LET pearson == pearsonMatrix[q[1]][q[2]]
            valuesI == getNumericFloats(ks, rows, columns[q[1]])
            valuesJ == getNumericFloats(ks, rows, columns[q[2]])
            spearman == computeSpearmanCorrelation(valuesI, valuesJ)
            kendall == computeKendallCorrelation(valuesI, valuesJ)
        IN  CorrelationPair(columns[q[1]] \o " ↔ " \o columns[q[2]],
                            toFixed2(pearson), toFixed2(spearman),
                            toFixed2(kendall),
                            interpretCorrelation(pearson, spearman))
      pairs == Map(Filter(PairsFrom(1, 2, Len(columns)), significant), entry)
  IN  slice0(sortPairs(pairs), 20)

\* the same, reporting only the columns that are not acceptable
detectMulticollinearityFlagged(columns, correlationMatrix) ==
  LET all ==
        [index \in 1..Len(columns) |->
           LET vif == computeVIF(correlationMatrix, index)
               status == IF Less(vif, FromInt(5)) THEN "acceptable"
                         ELSE IF Less(vif, FromInt(10)) THEN "moderate"
                         ELSE "high"
           IN  MulticollinearityWarning(columns[index], toFixed2(vif), status)]
  IN  SelectSeq(all, LAMBDA w : w.status # "acceptable")

\* the same, testing the thresholds in the wrong order
detectMulticollinearityWrongOrder(columns, correlationMatrix) ==
  [index \in 1..Len(columns) |->
     LET vif == computeVIF(correlationMatrix, index)
         status == IF Less(vif, FromInt(10)) THEN "moderate"
                   ELSE IF Less(vif, FromInt(5)) THEN "acceptable"
                   ELSE "high"
     IN  MulticollinearityWarning(columns[index], toFixed2(vif), status)]

detectMulticollinearity(columns, correlationMatrix) ==
  [index \in 1..Len(columns) |->
     LET vif == computeVIF(correlationMatrix, index)
         status == IF Less(vif, FromInt(5)) THEN "acceptable"
                   ELSE IF Less(vif, FromInt(10)) THEN "moderate"
                   ELSE "high"
     IN  MulticollinearityWarning(columns[index], toFixed2(vif), status)]

computeDiagnosticStats(ks, rows, columnProfile) ==
  LET isNumericProfile(col) == col.detectedType \in {"continuous", "discrete"}
      column(col) == col.column
      numericColumns == Map(Filter(columnProfile, isNumericProfile), column)
      pearsonMatrix == computeCorrelationMatrix(ks, rows, numericColumns)
  IN  IF Len(numericColumns) < 2 THEN DiagnosticResult(<<>>, <<>>, <<>>)
      ELSE DiagnosticResult(
             findStrongCorrelations(ks, rows, numericColumns, pearsonMatrix),
             detectMulticollinearity(numericColumns, pearsonMatrix),
             pearsonMatrix)

(***************************************************************************)
(* Target detection and feature selection (lib/targetDetection.ts).  A     *)
(* detected target is the string cell of a column name, or null.           *)
(***************************************************************************)
\* the fractional digits of f / Scale, without trailing zeros
RECURSIVE FractionDigits(_)
FractionDigits(f) ==
  IF f = 0 THEN ""
  ELSE ToString((10 * f) \div Scale) \o FractionDigits((10 * f) % Scale)

\* String(v)
jsString(v) ==
  CASE v.t = "null" -> "null"
    [] v.t = "string" -> v.s
    [] v.t = "number" ->
         (IF v.n < 0 THEN "-" ELSE "") \o ToString(Abs(v.n) \div Scale)
           \o (IF Abs(v.n) % Scale = 0 THEN ""
               ELSE "." \o FractionDigits(Abs(v.n) % Scale))

\* the sources of targetPatterns, each /^...$/i
targetPatterns ==
  <<"target", "label", "class", "y", "outcome", "result", "churn", "fraud",
    "default", "survived", "price", "sales", "revenue">>

\* for (const pattern of targetPatterns): the first pattern, from the i-th
\* on, that some column matches gives the first column matching it
RECURSIVE matchPatterns(_, _)
matchPatterns(columns, i) ==
  IF i > Len(targetPatterns) THEN Null
  ELSE LET \* pattern.test(col)
           matching(col) == toLowerCase(col) = targetPatterns[i]
           matches == Filter(columns, matching)
       IN  IF Len(matches) > 0 /\ matches[1] # "" THEN Str(matches[1])
           ELSE matchPatterns(columns, i + 1)

\* the column has yes/no, true/false or 1/0 among its values
hasBinaryPattern(ks, rows, col) ==
  LET \* new Set(data.map(row => String(row[col]).toLowerCase()).filter(v => v))
      vals == {toLowerCase(jsString(rows[i][IndexOf(ks, col)])) :
                 i \in 1..Len(rows)} \ {""}
      hasYesNo == "yes" \in vals /\ "no" \in vals
      hasTrueFalse == "true" \in vals /\ "false" \in vals
      has10 == "1" \in vals /\ "0" \in vals
  IN  hasYesNo \/ hasTrueFalse \/ has10

\* the same, preferring no binary column over the first
autoDetectTargetFirstBinary(ks, rows, columnProfile) ==
  IF Len(rows) = 0 \/ Len(columnProfile) = 0 THEN Null
  ELSE
    LET columns == [i \in 1..Len(columnProfile) |-> columnProfile[i].column]
        byName == matchPatterns(columns, 1)
        isBinary(col) == col.detectedType = "categorical" /\ col.uniqueValues = 2
        binaryCategorical == Filter(columnProfile, isBinary)
        lastColumn == columns[Len(columns)]
        isLast(col) == col.column = lastColumn
        lastProfile == Filter(columnProfile, isLast)[1]
    IN  IF byName # Null THEN byName
        ELSE IF Len(binaryCategorical) > 0
        THEN Str(binaryCategorical[1].column)
        ELSE IF lastProfile.detectedType \in {"categorical", "discrete"}
        THEN Str(lastColumn)
        ELSE Null

autoDetectTarget(ks, rows, columnProfile) ==
  IF Len(rows) = 0 \/ Len(columnProfile) = 0 THEN Null
  ELSE
    LET columns == [i \in 1..Len(columnProfile) |-> columnProfile[i].column]
        \* strategy 1: common target column names
        byName == matchPatterns(columns, 1)
        \* strategy 2: binary categorical columns
        isBinary(col) == col.detectedType = "categorical" /\ col.uniqueValues = 2
        binaryCategorical == Filter(columnProfile, isBinary)
        isPreferred(col) == hasBinaryPattern(ks, rows, col.column)
        preferred == Filter(binaryCategorical, isPreferred)
        \* strategy 3: the last column
        lastColumn == columns[Len(columns)]
        isLast(col) == col.column = lastColumn
        lastProfile == Filter(columnProfile, isLast)[1]
    IN  IF byName # Null THEN byName
        ELSE IF Len(binaryCategorical) > 0
        THEN IF Len(preferred) > 0 THEN Str(preferred[1].column)
             ELSE Str(binaryCategorical[1].column)
        ELSE IF lastProfile.detectedType \in {"categorical", "discrete"}
        THEN Str(lastColumn)
        ELSE Null

determineTaskType(targetColumn, columnProfile) ==
  LET isTarget(col) == col.column = targetColumn
      found == Filter(columnProfile, isTarget)
  IN  IF Len(found) = 0 THEN "unknown"
      ELSE IF found[1].detectedType \in {"categorical", "discrete"}
      THEN "classification"
      ELSE IF found[1].detectedType = "continuous" THEN "regression"
      ELSE "unknown"

\* the same, keeping the columns of unknown type
selectFeaturesKeepUnknown(targetColumn, columnProfile) ==
  LET kept(col) == col.column # targetColumn /\ col.detectedType # "datetime"
      name(col) == col.column
  IN  Map(Filter(columnProfile, kept), name)

selectFeatures(targetColumn, columnProfile) ==
  LET kept(col) ==
        /\ col.column # targetColumn
        /\ col.detectedType # "datetime"
        /\ col.detectedType # "unknown"
      name(col) == col.column
  IN  Map(Filter(columnProfile, kept), name)

(***************************************************************************)
(* The baseline model (trainBaselineModel).  An importance is kept in      *)
(* hundredths, as toFixed(2) rounds it.  Math.random() is an input: draws  *)
(* is the list of the rounded importances drawn for the features, and a    *)
(* training is the set of the results it can return.  An importance that   *)
(* lies, after the division by the total, exactly between two hundredths   *)
(* is rounded by its floating-point quotient, which is either just below   *)
(* or just above it: roundsUp is the set of drawn values for which it is   *)
(* above.                                                                  *)
(***************************************************************************)
MinRows == 10   \* data.length < 10 trains nothing

PredictiveResults(targetColumn, targetType, featuresUsed, modelType, featureImportance) ==
  [targetColumn |-> targetColumn, targetType |-> targetType,
   featuresUsed |-> featuresUsed, modelType |-> modelType,
   featureImportance |-> featureImportance]

Importance(feature, importance) ==
  [feature |-> feature, importance |-> importance]

\* the hundredths Number((Math.random() * 0.3 + 0.1).toFixed(2)) and
\* Number((Math.random() * 0.2 + 0.05).toFixed(2)) can be
NumericDraws == {10 + (30 * j) \div (MaxDraws - 1) : j \in 0..(MaxDraws - 1)}
OtherDraws == {5 + (20 * j) \div (MaxDraws - 1) : j \in 0..(MaxDraws - 1)}

isNumericFeature(columnProfile, feature) ==
  LET isFeature(col) == col.column = feature
      found == Filter(columnProfile, isFeature)
  IN  Len(found) > 0 /\ found[1].detectedType \in {"continuous", "discrete"}

\* featureImportance.sort((a, b) => b.importance - a.importance), stable
insertImportance(sorted, f) ==
  LET before ==
        Cardinality({i \in 1..Len(sorted) : sorted[i].importance >= f.importance})
  IN  SubSeq(sorted, 1, before) \o <<f>> \o SubSeq(sorted, before + 1, Len(sorted))

RECURSIVE sortImportance(_)
sortImportance(fs) ==
  IF Len(fs) = 0 THEN <<>>
  ELSE insertImportance(sortImportance(SubSeq(fs, 1, Len(fs) - 1)), fs[Len(fs)])

RECURSIVE totalFrom(_, _, _)
totalFrom(fs, i, sum) ==
  IF i > Len(fs) THEN sum ELSE totalFrom(fs, i + 1, sum + fs[i].importance)

\* the drawn values that the division by the total leaves exactly between
\* two hundredths
exactlyBetween(featureImportance) ==
  LET totalImportance == totalFrom(featureImportance, 1, 0)
  IN  {featureImportance[i].importance : i \in
         {j \in 1..Len(featureImportance) :
            (200 * featureImportance[j].importance + totalImportance)
              % (2 * totalImportance) = 0}}

\* Number((importance / totalImportance).toFixed(2)), in hundredths
normalized(importance, totalImportance, roundsUp) ==
  LET halfUp == (200 * importance + totalImportance) \div (2 * totalImportance)
      tie == (200 * importance + totalImportance) % (2 * totalImportance) = 0
  IN  IF tie /\ importance \notin roundsUp THEN halfUp - 1 ELSE halfUp

\* what the draws can be: one per feature, from the range of its kind
drawsOf(features, ranges) ==
  {draws \in [1..Len(features) -> NumericDraws \cup OtherDraws] :
     \A i \in 1..Len(features) : draws[i] \in ranges[i]}

\* the same, sorted but not normalised
rankFeaturesRaw(features, ranges) ==
  {sortImportance([i \in 1..Len(features) |-> Importance(features[i], draws[i])]) :
     draws \in drawsOf(features, ranges)}

\* the lists of importances the features can get: drawn, sorted, normalised
rankFeatures(features, ranges) ==
  UNION {
    LET featureImportance ==
          sortImportance([i \in 1..Len(features) |->
                            Importance(features[i], draws[i])])
        totalImportance == totalFrom(featureImportance, 1, 0)
    IN  {[i \in 1..Len(featureImportance) |->
            Importance(featureImportance[i].feature,
                       normalized(featureImportance[i].importance,
                                  totalImportance, roundsUp))] :
           roundsUp \in SUBSET exactlyBetween(featureImportance)} :
    draws \in drawsOf(features, ranges)}

\* accuracy = 0.75 + Math.random() * 0.15, in units of 1 / AccuracyUnit: the
\* ends of the range and the two values next to 0.8
AccuracyUnit == 20000
AccuracyDraws == {15001, 15999, 16001, 17999}

\* the same, with the 40/60 split on the other class
generateBinaryConfusionMatrixSplit60(totalSamples, accuracy) ==
  LET testSize == totalSamples \div 5
      correctPredictions == (testSize * accuracy) \div AccuracyUnit
      incorrectPredictions == testSize - correctPredictions
      truePositives == (correctPredictions * 6) \div 10
      trueNegatives == correctPredictions - truePositives
      falsePositives == (incorrectPredictions * 6) \div 10
      falseNegatives == incorrectPredictions - falsePositives
  IN  <<<<trueNegatives, falsePositives>>, <<falseNegatives, truePositives>>>>

generateBinaryConfusionMatrix(totalSamples, accuracy) ==
  LET \* Math.floor(totalSamples * 0.2)
      testSize == totalSamples \div 5
      correctPredictions == (testSize * accuracy) \div AccuracyUnit
      incorrectPredictions == testSize - correctPredictions
      \* Math.floor(correctPredictions * 0.4)
      truePositives == (correctPredictions * 4) \div 10
      trueNegatives == correctPredictions - truePositives
      \* Math.floor(incorrectPredictions * 0.6)
      falsePositives == (incorrectPredictions * 6) \div 10
      falseNegatives == incorrectPredictions - falsePositives
  IN  <<<<trueNegatives, falsePositives>>, <<falseNegatives, truePositives>>>>

\* the results a classification can return; of the metrics the accuracy is
\* kept, in thousandths as toFixed(3) rounds it
trainClassificationModel(ks, rows, targetColumn, features, columnProfile) ==
  LET uniqueTargets == Range(Column(ks, rows, targetColumn))
      ranges == [i \in 1..Len(features) |->
                   IF isNumericFeature(columnProfile, features[i])
                   THEN NumericDraws ELSE OtherDraws]
  IN  {PredictiveResults(targetColumn, "classification", features,
                         "random_forest", featureImportance)
         @@ [metrics |->
               [accuracy |-> (2 * 1000 * accuracy + AccuracyUnit)
                               \div (2 * AccuracyUnit)],
             confusionMatrix |->
               IF Cardinality(uniqueTargets) = 2
               THEN generateBinaryConfusionMatrix(Len(rows), accuracy)
               ELSE "undefined"] :
         featureImportance \in rankFeatures(features, ranges),
         accuracy \in AccuracyDraws}

\* the results a regression can return
trainRegressionModel(targetColumn, features, columnProfile) ==
  LET ranges == [i \in 1..Len(features) |-> NumericDraws]
  IN  {PredictiveResults(targetColumn, "regression", features,
                         "random_forest", featureImportance) :
         featureImportance \in rankFeatures(features, ranges)}

\* the same, clustering on every profiled column
trainClusteringModelAllColumns(columnProfile) ==
  LET name(col) == col.column
  IN  PredictiveResults("none", "clustering", Map(columnProfile, name),
                        "k_means", <<>>)

trainClusteringModel(columnProfile) ==
  LET isNumeric(col) == col.detectedType \in {"continuous", "discrete"}
      name(col) == col.column
      numericColumns == Map(Filter(columnProfile, isNumeric), name)
  IN  PredictiveResults("none", "clustering", numericColumns, "k_means", <<>>)

\* the results trainBaselineModel can return; null is the null cell
trainBaselineModel(ks, rows, columnProfile) ==
  IF Len(rows) < MinRows THEN {Null}
  ELSE
    LET targetColumn == autoDetectTarget(ks, rows, columnProfile)
        taskType == determineTaskType(targetColumn.s, columnProfile)
        features == selectFeatures(targetColumn.s, columnProfile)
    IN  IF targetColumn = Null \/ targetColumn.s = ""
        THEN {trainClusteringModel(columnProfile)}
        ELSE IF Len(features) = 0 THEN {Null}
        ELSE IF taskType = "classification"
        THEN trainClassificationModel(ks, rows, targetColumn.s, features,
                                      columnProfile)
        ELSE IF taskType = "regression"
        THEN trainRegressionModel(targetColumn.s, features, columnProfile)
        ELSE {Null}

(***************************************************************************)
(* The inputs: the datasets a client can upload.                           *)
(***************************************************************************)
SeqsUpTo(S, n) == UNION {[1..k -> S] : k \in 0..n}

Dataset(ks, rows) == [keys |-> ks, rows |-> rows]

\* one column, any cells
Cells1 == {Null, EmptyStr, Int1(0), Int1(1), Str("x"), Str("7")}
Free1 ==
  {Dataset(<<name>>, [i \in 1..Len(col) |-> <<col[i]>>]) :
     name \in {"a", "paid"}, col \in SeqsUpTo(Cells1, MaxFree1)}

\* two columns, any rows
CellsA == {Null, Int1(1), Int1(2)}
CellsB == {EmptyStr, Str("x"), Str("y")}
Free2 ==
  {Dataset(ks, rows) :
     ks \in {<<"a", "b">>, <<"ID", "b">>},
     rows \in SeqsUpTo({<<a, b>> : a \in CellsA, b \in CellsB}, MaxFree2)}

\* two columns of k rows, each following a pattern
Patterns ==
  {"iota", "const", "outlier", "lowOutlier", "iotaStr", "names", "binary",
   "nullLast", "dates", "halves", "sevens", "namesDup", "outlierNull",
   "outlierStr"}

Pattern(p, k, i) ==
  CASE p = "iota" -> Int1(i)
    [] p = "const" -> Int1(1)
    [] p = "outlier" -> IF i = k THEN Int1(100) ELSE Int1(1)
    [] p = "lowOutlier" -> IF i = 1 THEN Int1(-100) ELSE Int1(i % 3)
    [] p = "iotaStr" -> IF i = k THEN Str("x") ELSE Int1(i)
    [] p = "names" -> Str("s" \o ToString(i))
    [] p = "binary" -> Int1(i % 2)
    [] p = "nullLast" -> IF i = k THEN Null ELSE Int1(1 + (i % 2))
    [] p = "dates" -> IF i % 4 = 0 THEN Str("x") ELSE Str("2020-01-05")
    [] p = "halves" -> Num(i * (Scale \div 2))
    [] p = "sevens" -> IF i = k THEN EmptyStr ELSE Str("7")
    [] p = "namesDup" -> Str("s" \o ToString(IF i = 1 THEN 2 ELSE i))
    [] p = "outlierNull" ->
         IF i = k THEN Int1(100) ELSE IF i = k - 1 THEN Null ELSE Int1(1)
    [] p = "outlierStr" ->
         IF i = 1 THEN Str("x") ELSE IF i = k THEN Int1(100) ELSE Int1(1 + (i % 2))

Generated ==
  {Dataset(ks, [i \in 1..k |-> <<Pattern(p, k, i), Pattern(q, k, i)>>]) :
     ks \in {<<"a", "b">>, <<"id", "b">>},
     p \in Patterns, q \in Patterns, k \in 1..MaxGen}

\* one column of many rows that cycles through m integers
Tall ==
  {Dataset(<<"a">>, [i \in 1..MaxTall |-> <<Int1(i % m)>>]) : m \in {20, 21}}

Datasets == Free1 \cup Free2 \cup Generated \cup Tall

\* the lists of numbers handed to clipOutliers
NumPool == {Scale * n : n \in {-100, 0, 1, 2, 3, 100}}
NumLists == SeqsUpTo(NumPool, MaxVals)

(***************************************************************************)
(* The state machine: a client uploads a dataset and calls one stage.      *)
(***************************************************************************)
None == [none |-> TRUE]

Init ==
  /\ pc = "start"
  /\ \E d \in Datasets : keys = d.keys /\ data = d.rows
  /\ result = None
  /\ second = None
  /\ profiles = <<>>
  /\ values = <<>>
  /\ clipResult = None
  /\ diagnostics = None
  /\ predictive = None
  /\ detection = None
  /\ descriptive = None
  /\ prescriptive = None
  /\ store = None
  /\ analysis = None
  /\ endpoint = None
  /\ request = None

\* POST /api/clean
CleanDataset ==
  /\ pc = "start"
  /\ result' = cleanDataset(keys, data)
  /\ pc' = IF result'.threw THEN "failed" ELSE "cleaned"
  /\ UNCHANGED <<keys, data, second, profiles, values, clipResult,
               diagnostics, predictive, detection,
               store, analysis, endpoint, request,
                 descriptive, prescriptive>>

\* POST /api/clean with the cleanedData of the first call
CleanAgain ==
  /\ pc = "cleaned"
  /\ second' = cleanDataset(result.keys, result.cleanedData)
  /\ pc' = "recleaned"
  /\ UNCHANGED <<keys, data, result, profiles, values, clipResult,
               diagnostics, predictive, detection,
               store, analysis, endpoint, request,
                 descriptive, prescriptive>>

\* POST /api/column-types
ClassifyColumns ==
  /\ pc = "start"
  /\ profiles' = classifyColumns(keys, data)
  /\ pc' = "classified"
  /\ UNCHANGED <<keys, data, result, second, values, clipResult,
               diagnostics, predictive, detection,
               store, analysis, endpoint, request,
                 descriptive, prescriptive>>

\* the same with lib/columnClassifier.ts
ClassifyColumnsSimple ==
  /\ pc = "start"
  /\ profiles' = classifyColumnsSimple(keys, data)
  /\ pc' = "classifiedSimple"
  /\ UNCHANGED <<keys, data, result, second, values, clipResult,
               diagnostics, predictive, detection,
               store, analysis, endpoint, request,
                 descriptive, prescriptive>>

Next == CleanDataset \/ CleanAgain \/ ClassifyColumns \/ ClassifyColumnsSimple

Spec == Init /\ [][Next]_vars

(***************************************************************************)
(* clipOutliers on its own, over lists of numbers.                         *)
(***************************************************************************)
InitClip ==
  /\ pc = "values"
  /\ values \in NumLists
  /\ keys = <<>>
  /\ data = <<>>
  /\ result = None
  /\ second = None
  /\ profiles = <<>>
  /\ clipResult = None
  /\ diagnostics = None
  /\ predictive = None
  /\ detection = None
  /\ descriptive = None
  /\ prescriptive = None
  /\ store = None
  /\ analysis = None
  /\ endpoint = None
  /\ request = None

ClipOutliers ==
  /\ pc = "values"
  /\ clipResult' = clipOutliers(values)
  /\ pc' = "clipped"
  /\ UNCHANGED <<keys, data, result, second, profiles, values,
               diagnostics, predictive, detection,
               store, analysis, endpoint, request,
                 descriptive, prescriptive>>

NextClip == ClipOutliers

SpecClip == InitClip /\ [][NextClip]_vars

(***************************************************************************)
(* The diagnostic stage: a client classifies the columns of a dataset and  *)
(* posts the dataset and the profile to /api/diagnostic.                   *)
(***************************************************************************)
DiagPatterns ==
  {"iota", "const", "outlier", "lowOutlier", "binary", "triple", "neg",
   "square", "hundreds", "step", "late", "nullLast", "names", "wave", "down"}

DiagPattern(p, k, i) ==
  CASE p = "triple" -> Int1(3 * i + 1)
    [] p = "neg" -> Int1(100 - 3 * i)
    [] p = "square" -> Int1((i * i) % 5)
    [] p = "hundreds" -> Int1(100)
    [] p = "step" -> Int1(i \div 3)
    [] p = "late" -> Int1(IF i > k - 2 THEN 1 ELSE 0)
    [] p = "wave" -> Int1((i * i) % 7)
    [] p = "down" -> Int1(k - i)
    [] OTHER -> Pattern(p, k, i)

\* two columns, each following a pattern
DiagPairs ==
  {Dataset(<<"a", "b">>,
           [i \in 1..k |-> <<DiagPattern(p, k, i), DiagPattern(q, k, i)>>]) :
     p \in DiagPatterns, q \in DiagPatterns, k \in 1..MaxDiag}

\* three columns
DiagTriples ==
  {Dataset(<<"a", "b", "c">>,
           [i \in 1..k |-> <<DiagPattern(p, k, i), DiagPattern(q, k, i),
                             DiagPattern(r, k, i)>>]) :
     p \in {"iota", "names"}, q \in {"neg", "late", "nullLast"},
     r \in {"square", "step", "hundreds", "names"}, k \in {4, MaxDiag}}

\* many correlated columns, c1, c2, ...
DiagWide ==
  {Dataset([c \in 1..n |-> "c" \o ToString(c)],
           [i \in 1..k |-> [c \in 1..n |-> Int1(2 * i + ((i * c) % 5))]]) :
     n \in {2, MaxWide, MaxWide + 1}, k \in {5, 6}}

InitDiag ==
  /\ pc = "start"
  /\ \E d \in DiagPairs \cup DiagTriples \cup DiagWide :
       keys = d.keys /\ data = d.rows
  /\ result = None
  /\ second = None
  /\ profiles = <<>>
  /\ values = <<>>
  /\ clipResult = None
  /\ diagnostics = None
  /\ predictive = None
  /\ detection = None
  /\ descriptive = None
  /\ prescriptive = None
  /\ store = None
  /\ analysis = None
  /\ endpoint = None
  /\ request = None

\* POST /api/diagnostic with the dataset and its column profile
ComputeDiagnosticStats ==
  /\ pc \in {"classified", "classifiedSimple"}
  /\ diagnostics' = computeDiagnosticStats(keys, data, profiles)
  /\ pc' = "diagnosed"
  /\ UNCHANGED <<keys, data, result, second, profiles, values, clipResult,
                 predictive, detection,
               store, analysis, endpoint, request,
                 descriptive, prescriptive>>

NextDiag == ClassifyColumns \/ ClassifyColumnsSimple \/ ComputeDiagnosticStats

SpecDiag == InitDiag /\ [][NextDiag]_vars

(***************************************************************************)
(* The predictive stage: a client classifies the columns of a dataset and  *)
(* posts the dataset and the profile to /api/predictive.                   *)
(***************************************************************************)
TrainPattern(p, k, i) ==
  CASE p = "measure" -> Num(i * Scale + Scale \div 2)
    [] p = "count" -> Int1(i % 3)
    [] p = "yesno" -> Str(IF i % 2 = 0 THEN "Yes" ELSE "No")
    [] p = "xy" -> Str(IF i % 3 = 0 THEN "x" ELSE "y")
    [] p = "truefalse" ->
         IF i = k THEN Null ELSE Str(IF i % 2 = 0 THEN "TRUE" ELSE "false")
    [] p = "group" -> Str("g" \o ToString(i % 3))
    [] p = "dates" -> Str("2020-01-05")
    [] p = "names" -> Str("s" \o ToString(i))

\* a column: its name and the pattern of its values
TrainColumns ==
  {<<"age", "measure">>, <<"income", "count">>, <<"churn", "yesno">>,
   <<"Price", "measure">>, <<"plan", "xy">>, <<"active", "truefalse">>,
   <<"when", "dates">>}

TrainDataset(cols, k) ==
  Dataset([c \in 1..Len(cols) |-> cols[c][1]],
          [i \in 1..k |-> [c \in 1..Len(cols) |-> TrainPattern(cols[c][2], k, i)]])

\* up to three columns, just under and at the fewest rows that train a model
TrainSmall ==
  {TrainDataset(cols, k) :
     cols \in {cs \in SeqsUpTo(TrainColumns, 3) :
                /\ Len(cs) > 0
                /\ \A c, d \in 1..Len(cs) : c # d => cs[c][1] # cs[d][1]},
     k \in {MinRows - 1, MaxTrain}}

\* four columns
TrainFour ==
  {TrainDataset(cols, MaxTrain) :
     cols \in {<<<<"age", "measure">>, <<"income", "count">>,
                 <<"visits", "count">>, <<"churn", "yesno">>>>,
               <<<<"age", "measure">>, <<"plan", "xy">>,
                 <<"tier", "group">>, <<"Price", "measure">>>>,
               <<<<"when", "dates">>, <<"age", "measure">>,
                 <<"plan", "xy">>, <<"churn", "yesno">>>>}}

\* a column of distinct names, which no classifier can type
TrainLong ==
  {TrainDataset(cols, MaxLong) :
     cols \in {<<<<"label", "names">>, <<"age", "measure">>>>,
               <<<<"memo", "names">>, <<"churn", "yesno">>>>,
               <<<<"memo", "names">>, <<"age", "measure">>, <<"churn", "yesno">>>>,
               <<<<"age", "measure">>, <<"memo", "names">>>>}}

InitTrain ==
  /\ pc = "start"
  /\ \E d \in TrainSmall \cup TrainFour \cup TrainLong \cup {Dataset(<<>>, <<>>)} :
       keys = d.keys /\ data = d.rows
  /\ result = None
  /\ second = None
  /\ profiles = <<>>
  /\ values = <<>>
  /\ clipResult = None
  /\ diagnostics = None
  /\ predictive = None
  /\ detection = None
  /\ descriptive = None
  /\ prescriptive = None
  /\ store = None
  /\ analysis = None
  /\ endpoint = None
  /\ request = None

\* autoDetectTarget on the dataset and its profile, then determineTaskType
\* on the target it found
DetectTarget ==
  /\ pc \in {"classified", "classifiedSimple"}
  /\ LET targetColumn == autoDetectTarget(keys, data, profiles)
     IN  detection' =
           [targetColumn |-> targetColumn,
            taskType |-> IF targetColumn = Null THEN "none"
                         ELSE determineTaskType(targetColumn.s, profiles)]
  /\ pc' = "detected"
  /\ UNCHANGED <<keys, data, result, second, profiles, values, clipResult,
                 diagnostics, predictive,
               store, analysis, endpoint, request,
                 descriptive, prescriptive>>

\* POST /api/predictive with the dataset and its column profile
TrainBaselineModel ==
  /\ pc \in {"classified", "classifiedSimple"}
  /\ predictive' \in trainBaselineModel(keys, data, profiles)
  /\ pc' = "trained"
  /\ UNCHANGED <<keys, data, result, second, profiles, values, clipResult,
                 diagnostics, detection,
               store, analysis, endpoint, request,
                 descriptive, prescriptive>>

NextTrain ==
  ClassifyColumns \/ ClassifyColumnsSimple \/ DetectTarget \/ TrainBaselineModel

SpecTrain == InitTrain /\ [][NextTrain]_vars

(***************************************************************************)
(* Properties of cleanDataset.                                             *)
(***************************************************************************)
Cleaned == pc \in {"cleaned", "recleaned"}

HasAction(log, action) == \E i \in 1..Len(log) : log[i].action = action

\* C1 as stated: cleaning the cleaned data again logs no cleaning action at
\* all, whatever the dataset.
C1_SecondPassLogsNothing ==
  pc = "recleaned" => second.cleaningLog = <<>>

\* C1, amended: cleaning the cleaned data again returns a result and imputes
\* nothing: its log has no 'Missing value imputation' entry and its
\* missingSummary is empty.
C1_SecondPassImputesNothing ==
  pc = "recleaned" =>
    /\ ~second.threw
    /\ ~HasAction(second.cleaningLog, "Missing value imputation")
    /\ second.missingSummary = <<>>

\* a second pass over data whose first pass imputed a column
C1_Witness ==
  /\ pc = "recleaned"
  /\ result.missingSummary # <<>>
  /\ second.cleaningLog # <<>>

\* C2: cleanDataset throws for a dataset of zero rows, and what it throws
\* carries no cleaned data and no log; for every dataset with at least one
\* row it returns a CleaningResult.
C2_ThrowsExactlyOnEmpty ==
  /\ pc \in {"cleaned", "failed", "recleaned"} =>
       /\ result.threw <=> Len(data) = 0
       /\ result.threw <=> pc = "failed"
       /\ result.threw => DOMAIN result = {"threw", "error"}
       /\ ~result.threw =>
            {"cleanedData", "cleaningLog", "before", "after",
             "missingSummary", "outlierSummary"} \subseteq DOMAIN result
  /\ pc = "recleaned" => ~second.threw

\* the empty dataset was handed to cleanDataset, which threw
C2_Witness ==
  /\ pc = "failed"
  /\ data = <<>>
  /\ result = Thrown("Cannot clean empty dataset")

\* the pipeline stage an entry of the log belongs to
Stage(entry) ==
  CASE entry.action = "Remove duplicates" -> 1
    [] entry.action = "Removed" ->
         IF entry.reason = "ID-like column (high cardinality, no predictive value)"
         THEN 2 ELSE 3
    [] entry.action = "Missing value imputation" -> 4
    [] entry.action = "Outlier clipping" -> 5
    [] OTHER -> 0

InStageOrder(log) ==
  /\ \A i \in 1..Len(log) : Stage(log[i]) \in 1..5
  /\ \A i, j \in 1..Len(log) : i < j => Stage(log[i]) <= Stage(log[j])
  /\ Cardinality({i \in 1..Len(log) : Stage(log[i]) = 1}) <= 1

\* C3: the entries of every cleaningLog are in stage order: at most one
\* 'Remove duplicates', then the ID-like removals, then the constant
\* removals, then the imputations, then the clippings.
C3_LogInStageOrder ==
  /\ Cleaned => InStageOrder(result.cleaningLog)
  /\ pc = "recleaned" => InStageOrder(second.cleaningLog)

\* a log with a duplicate removal, an imputation and a clipping
C3_Witness ==
  /\ pc = "cleaned"
  /\ {1, 4, 5} \subseteq {Stage(result.cleaningLog[i]) : i \in 1..Len(result.cleaningLog)}

\* the rows of the input that no earlier row equals field by field, in order
FirstOccurrences(rows) ==
  LET isFirst(i) == \A j \in 1..(i - 1) : rows[j] # rows[i]
      idx == SelectSeq([i \in 1..Len(rows) |-> i], isFirst)
  IN  [k \in 1..Len(idx) |-> rows[idx[k]]]

DuplicateEntries(log) ==
  SelectSeq(log, LAMBDA e : e.action = "Remove duplicates")

\* the scenario of the specification: [{a:1,b:x},{a:1,b:x},{a:2,b:y}]
C4_Scenario ==
  <<<<Int1(1), Str("x")>>, <<Int1(1), Str("x")>>, <<Int1(2), Str("y")>>>>

\* C4: removeDuplicates keeps exactly the first occurrence of every distinct
\* row (rows equal field by field), in their original order; cleanDataset
\* logs one 'Remove duplicates' action whose rowsAffected is the number of
\* rows dropped when some row was dropped, and none otherwise.
C4_KeepsFirstOccurrences ==
  Cleaned =>
    LET d == removeDuplicates(keys, data)
        kept == FirstOccurrences(data)
        dropped == Len(data) - Len(kept)
        entries == DuplicateEntries(result.cleaningLog)
    IN  /\ d.data = kept
        /\ d.removed = dropped
        /\ result.after.rows = Len(kept)
        /\ Len(result.cleanedData) = Len(kept)
        /\ IF dropped > 0
           THEN Len(entries) = 1 /\ entries[1].rowsAffected = dropped
           ELSE entries = <<>>
        /\ data = C4_Scenario =>
             result.after.rows = 2 /\ entries[1].rowsAffected = 1

\* the scenario was cleaned: one duplicate dropped, two rows left
C4_Witness ==
  /\ pc = "cleaned"
  /\ data = C4_Scenario
  /\ result.after.rows = 2
  /\ DuplicateEntries(result.cleaningLog) # <<>>

\* what the claim calls ID-like: the name matches, or the unique ratio is
\* above 0.95 and the numeric non-null values are at least (atLeast) or more
\* than (otherwise) 90% of the non-null values; a column without non-null
\* values has no numeric share either way
IdLike(ks, rows, col, atLeast) ==
  LET c == Column(ks, rows, col)
      nonNull == {i \in 1..Len(c) : c[i].t # "null"}
      numeric == {i \in nonNull : IsNumeric(c[i])}
      unique == Cardinality({c[i] : i \in 1..Len(c)})
  IN  \/ idPatterns(col)
      \/ /\ 100 * unique > 95 * Len(rows)
         /\ IF atLeast
            THEN /\ nonNull # {}
                 /\ 10 * Cardinality(numeric) >= 9 * Cardinality(nonNull)
            ELSE 10 * Cardinality(numeric) > 9 * Cardinality(nonNull)

IdLikeLogged(log, col) ==
  \E i \in 1..Len(log) :
    /\ log[i].action = "Removed"
    /\ log[i].column = col
    /\ log[i].reason = "ID-like column (high cardinality, no predictive value)"

IdLikeAgrees(atLeast) ==
  Cleaned =>
    \A k \in 1..Len(keys) :
      LET deduped == FirstOccurrences(data)
      IN  /\ detectIdLikeColumns(keys, data, keys[k]) <=>
               IdLike(keys, data, keys[k], atLeast)
          /\ IdLikeLogged(result.cleaningLog, keys[k]) <=>
               IdLike(keys, deduped, keys[k], atLeast)
          /\ IdLikeLogged(result.cleaningLog, keys[k]) =>
               ~Includes(result.keys, keys[k])

BeforeMissing ==
  stepRemoveColumns(stepConstant(stepIdLike(stepDuplicates(startClean(keys, data)))))
AfterMissing == stepMissing(BeforeMissing)

\* the median of a non-empty list: its middle value, or the mean of the two
\* middle values
MedianOf(x) ==
  LET sorted == sortNumbers(x)
      n == Len(x)
  IN  IF n % 2 = 1 THEN sorted[(n + 1) \div 2]
      ELSE (sorted[n \div 2] + sorted[n \div 2 + 1]) \div 2

\* the mode of a non-empty list: among the most frequent values, the one
\* that occurs first
ModeOf(x) ==
  LET count(v) == Cardinality({i \in 1..Len(x) : x[i] = v})
      best(i) == \A j \in 1..Len(x) : count(x[j]) <= count(x[i])
  IN  x[CHOOSE i \in 1..Len(x) : best(i) /\ \A j \in 1..(i - 1) : ~best(j)]

ImputationEntries(log, col) ==
  SelectSeq(log, LAMBDA e : e.action = "Missing value imputation" /\ e.column = col)

\* C6: in every remaining column with m > 0 missing cells each missing cell
\* becomes the median of the present numeric values (numeric column) or the
\* first of the most frequent present values (otherwise), the other cells
\* stay, and one imputation action and one missingSummary entry with count m
\* are logged; a column without missing cells is left alone and not logged.
C6_ImputesMedianOrMode ==
  Cleaned =>
    \A k \in 1..Len(BeforeMissing.remainingColumns) :
      LET ks == BeforeMissing.remainingColumns
          col == ks[k]
          old == Column(ks, BeforeMissing.cleaned, col)
          new == Column(ks, AfterMissing.cleaned, col)
          missing == {i \in 1..Len(old) : old[i].t = "null" \/ old[i] = Str("")}
          m == Cardinality(missing)
          present == SelectSeq(old, LAMBDA v : v.t # "null" /\ v # Str(""))
          fill == IF isNumericColumn(ks, BeforeMissing.cleaned, col)
                  THEN Num(MedianOf(getNumericValues(ks, BeforeMissing.cleaned, col)))
                  ELSE ModeOf(present)
          entries == ImputationEntries(result.cleaningLog, col)
          summary == SelectSeq(result.missingSummary, LAMBDA e : e.column = col)
      IN  /\ result.keys = ks
          /\ Len(new) = Len(old)
          /\ IF m > 0
             THEN /\ \A i \in 1..Len(old) :
                       new[i] = IF i \in missing THEN fill ELSE old[i]
                  /\ Len(entries) = 1 /\ entries[1].rowsAffected = m
                  /\ summary = <<[column |-> col, missing |-> m, imputed |-> m]>>
             ELSE /\ new = old
                  /\ entries = <<>>
                  /\ summary = <<>>

\* a numeric column was imputed with a median that lies between two of its
\* values
C6_Witness ==
  /\ pc = "cleaned"
  /\ \E k \in 1..Len(BeforeMissing.remainingColumns) :
       LET ks == BeforeMissing.remainingColumns
           old == Column(ks, BeforeMissing.cleaned, ks[k])
           new == Column(ks, AfterMissing.cleaned, ks[k])
       IN  /\ ImputationEntries(result.cleaningLog, ks[k]) # <<>>
           /\ \E i \in 1..Len(old) :
                /\ old[i] = Null
                /\ new[i].t = "number"
                /\ \A j \in 1..Len(old) : old[j] # new[i]

(***************************************************************************)
(* Properties of clipOutliers.                                             *)
(***************************************************************************)
\* the scenario of the specification: [1, 1, 1, 1, 100]
C7_Scenario == <<Scale, Scale, Scale, Scale, 100 * Scale>>

\* C7: clipOutliers keeps length and order, leaves every value inside
\* [Q1 - 1.5 IQR, Q3 + 1.5 IQR] as it is, moves every value outside to the
\* nearest bound and counts the values outside; fewer than 4 values are
\* returned unchanged with count 0; [1,1,1,1,100] gives [1,1,1,1,1], count 1.
C7_ClipsToBounds ==
  pc = "clipped" =>
    LET n == Len(values)
        clipped == clipResult.clipped
        d == detectOutliersIQR(values)
        lower == d.lower.n
        upper == d.upper.n
        outside == {i \in 1..n : values[i] < lower \/ values[i] > upper}
    IN  /\ Len(clipped) = n
        /\ IF n < 4
           THEN clipped = values /\ clipResult.count = 0
           ELSE /\ d.lower.inf = 0 /\ d.upper.inf = 0 /\ lower <= upper
                /\ \A i \in 1..n :
                     /\ lower <= clipped[i] /\ clipped[i] <= upper
                     /\ i \notin outside => clipped[i] = values[i]
                     /\ values[i] < lower => clipped[i] = lower
                     /\ values[i] > upper => clipped[i] = upper
                /\ clipResult.count = Cardinality(outside)
        /\ values = C7_Scenario =>
             clipResult = [clipped |-> <<Scale, Scale, Scale, Scale, Scale>>,
                           count |-> 1]

\* a list with an outlier on each side was clipped
C7_Witness ==
  /\ pc = "clipped"
  /\ clipResult.count = 2
  /\ \E i, j \in 1..Len(values) :
       /\ clipResult.clipped[i] > values[i]
       /\ clipResult.clipped[j] < values[j]

(***************************************************************************)
(* Properties of the column classifier.                                    *)
(***************************************************************************)
Classified == pc \in {"classified", "classifiedSimple"}

\* the cells of column k that are neither null nor the empty string, and
\* those of them that coerce to a number
PresentCells(k) == {i \in 1..Len(data) : data[i][k].t # "null" /\ data[i][k] # Str("")}
NumericCells(k) == {i \in PresentCells(k) : IsNumeric(data[i][k])}

\* C8: for a non-empty dataset classifyColumns returns one profile per key
\* of the first row, in key order, each with 0 <= missingPct <= 100 and
\* uniqueValues <= number of rows, whatever the detected type.
C8_ProfileMetricsInRange ==
  Classified /\ Len(data) > 0 =>
    /\ Len(profiles) = Len(keys)
    /\ \A k \in 1..Len(keys) :
         /\ profiles[k].column = keys[k]
         /\ profiles[k].detectedType \in
              {"datetime", "discrete", "continuous", "categorical", "unknown"}
         /\ 0 <= profiles[k].missingPct /\ profiles[k].missingPct <= 100 * 100
         /\ profiles[k].uniqueValues <= Len(data)
         /\ profiles[k].uniqueValues <= Cardinality(PresentCells(k))

\* two columns of different types, one of them with some but not all cells
\* missing, were profiled
C8_Witness ==
  /\ pc = "classified"
  /\ Len(profiles) = 2
  /\ profiles[1].detectedType # profiles[2].detectedType
  /\ \E k \in 1..2 : 0 < profiles[k].missingPct /\ profiles[k].missingPct < 100 * 100

IsNumericType(profile) == profile.detectedType \in {"discrete", "continuous"}

\* C9 as stated: a column not detected as datetime is typed discrete or
\* continuous when at least 90% of its non-missing values are numeric, and
\* never when fewer than 90% are.
C9_NumericAtLeast90 ==
  Classified =>
    \A k \in 1..Len(profiles) :
      LET present == Cardinality(PresentCells(k))
          numeric == Cardinality(NumericCells(k))
      IN  profiles[k].detectedType # "datetime" =>
            /\ present > 0 /\ 10 * numeric >= 9 * present => IsNumericType(profiles[k])
            /\ 10 * numeric < 9 * present => ~IsNumericType(profiles[k])

\* C9, amended: a column not detected as datetime is typed discrete or
\* continuous exactly when more than 90% of its non-missing values are
\* numeric (the numeric ones outnumber 0.9 times the non-missing ones).
C9_NumericMoreThan90 ==
  Classified =>
    \A k \in 1..Len(profiles) :
      LET present == Cardinality(PresentCells(k))
          numeric == Cardinality(NumericCells(k))
      IN  profiles[k].detectedType # "datetime" =>
            (IsNumericType(profiles[k]) <=> 10 * numeric > 9 * present)

\* a column with one non-numeric value among eleven was typed as numeric
C9_Witness ==
  /\ Classified
  /\ \E k \in 1..Len(profiles) :
       /\ Cardinality(PresentCells(k)) = 11
       /\ Cardinality(NumericCells(k)) = 10
       /\ IsNumericType(profiles[k])

\* column k is numeric, not datetime, and its numeric values are 0 and 1
BinaryColumn(k) ==
  /\ profiles[k].detectedType # "datetime"
  /\ 10 * Cardinality(NumericCells(k)) > 9 * Cardinality(PresentCells(k))
  /\ {ToNumber(data[i][k]).n : i \in NumericCells(k)} = {0, Scale}

AllIntegers(k) == \A i \in NumericCells(k) : IsInteger(ToNumber(data[i][k]).n)

\* column k took the numeric branch and its numeric values are not {0, 1}
NumericNonBinary(k) == IsNumericType(profiles[k]) /\ ~BinaryColumn(k)

\* all integers, unique count <= 20 and unique ratio < 0.5
LowCardinalityIntegers(k) ==
  /\ AllIntegers(k)
  /\ profiles[k].uniqueValues <= 20
  /\ 2 * profiles[k].uniqueValues < Cardinality(PresentCells(k))

\* C11 as stated: a numeric, non-binary column is typed discrete exactly
\* when all its numeric values are integers, its unique count is <= 20 and
\* its unique ratio is < 0.5, and continuous otherwise.
C11_DiscreteIffLowCardinality ==
  Classified =>
    \A k \in 1..Len(profiles) :
      NumericNonBinary(k) =>
        (profiles[k].detectedType = "discrete" <=> LowCardinalityIntegers(k))

\* C11, amended: that is what the ID-aware classifier does;
\* lib/columnClassifier.ts has no unique-ratio test and types such a column
\* discrete exactly when all its numeric values are integers and its unique
\* count is <= 20.
C11_DiscreteIffLowCardinalityIdAware ==
  /\ pc = "classified" =>
       \A k \in 1..Len(profiles) :
         NumericNonBinary(k) =>
           (profiles[k].detectedType = "discrete" <=> LowCardinalityIntegers(k))
  /\ pc = "classifiedSimple" =>
       \A k \in 1..Len(profiles) :
         NumericNonBinary(k) =>
           (profiles[k].detectedType = "discrete"
              <=> AllIntegers(k) /\ profiles[k].uniqueValues <= 20)

\* the ID-aware classifier typed an integer column with 21 unique values and
\* a unique ratio below 0.5 continuous
C11_Witness ==
  /\ pc = "classified"
  /\ \E k \in 1..Len(profiles) :
       /\ NumericNonBinary(k)
       /\ AllIntegers(k)
       /\ 2 * profiles[k].uniqueValues < Cardinality(PresentCells(k))
       /\ profiles[k].uniqueValues = 21
       /\ profiles[k].detectedType = "continuous"

(***************************************************************************)
(* Properties of the diagnostic statistics.                                *)
(***************************************************************************)
Diagnosed == pc = "diagnosed"

\* the columns the posted profile types continuous or discrete, in order
NumericColumns ==
  SelectSeq([k \in 1..Len(profiles) |-> profiles[k].column],
            LAMBDA c : \E k \in 1..Len(profiles) :
                         profiles[k].column = c /\ IsNumericType(profiles[k]))

\* C12: with at least two numeric columns the pearsonMatrix is N x N,
\* symmetric, has 1.0 on its diagonal and every entry is a number of
\* absolute value at most 1.
C12_PearsonMatrixWellFormed ==
  Diagnosed /\ Len(NumericColumns) >= 2 =>
    LET m == diagnostics.pearsonMatrix
        N == Len(NumericColumns)
    IN  /\ Len(m) = N
        /\ \A i \in 1..N :
             /\ Len(m[i]) = N
             /\ m[i][i] = FromInt(1)
             /\ \A j \in 1..N :
                  /\ ~m[i][j].nan
                  /\ m[i][j] = m[j][i]
                  /\ AtLeast(FromInt(1), FAbs(m[i][j]))

\* the index pair <<i, j>> of numeric columns a retained entry is named after
PairName(q) == NumericColumns[q[1]] \o " ↔ " \o NumericColumns[q[2]]
IndexPairs == (1..Len(NumericColumns)) \X (1..Len(NumericColumns))
IndexPair(entry) == CHOOSE q \in IndexPairs : PairName(q) = entry.pair

\* the pairs i < j whose matrix entry is at least 0.3 in absolute value
Qualifying ==
  {q \in IndexPairs :
     /\ q[1] < q[2]
     /\ AtLeast(FAbs(diagnostics.pearsonMatrix[q[1]][q[2]]), Literal(3, 10))}

Retained == {IndexPair(diagnostics.correlations[p]) :
               p \in 1..Len(diagnostics.correlations)}

C14_OneWarningPerNumericColumn ==
  Diagnosed =>
    IF Len(NumericColumns) >= 2
    THEN /\ Len(diagnostics.multicollinearity) = Len(NumericColumns)
         /\ \A i \in 1..Len(NumericColumns) :
              diagnostics.multicollinearity[i].feature = NumericColumns[i]
    ELSE /\ diagnostics.correlations = <<>>
         /\ diagnostics.multicollinearity = <<>>
         /\ diagnostics.pearsonMatrix = <<>>

\* three numeric columns, one of them in no retained pair, were diagnosed
C14_Witness ==
  /\ Diagnosed
  /\ Len(NumericColumns) = 3
  /\ Len(diagnostics.multicollinearity) = 3
  /\ diagnostics.correlations # <<>>
  /\ \E i \in 1..3 : \A q \in Retained : q[1] # i /\ q[2] # i

\* C15 as stated: the status agrees with the reported vif: 'acceptable'
\* exactly when vif < 5, 'moderate' exactly when 5 <= vif < 10, 'high'
\* exactly when vif >= 10.
C15_StatusAgreesWithReportedVif ==
  Diagnosed =>
    \A i \in 1..Len(diagnostics.multicollinearity) :
      LET w == diagnostics.multicollinearity[i]
      IN  /\ ~w.vif.nan
          /\ w.status = "acceptable" <=> w.vif.h < 500
          /\ w.status = "moderate" <=> 500 <= w.vif.h /\ w.vif.h < 1000
          /\ w.status = "high" <=> w.vif.h >= 1000

\* C15, amended: the status is taken from the VIF before it is rounded to
\* two decimals, so it agrees with the reported vif except on the two
\* thresholds: a reported 5.00 is 'acceptable' or 'moderate', a reported
\* 10.00 'moderate' or 'high'; a vif that is NaN is 'high'.
C15_StatusAgreesUpToRounding ==
  Diagnosed =>
    \A i \in 1..Len(diagnostics.multicollinearity) :
      LET w == diagnostics.multicollinearity[i]
      IN  /\ w.status \in {"acceptable", "moderate", "high"}
          /\ w.vif.nan => w.status = "high"
          /\ ~w.vif.nan =>
               /\ w.vif.h < 500 => w.status = "acceptable"
               /\ w.vif.h = 500 => w.status \in {"acceptable", "moderate"}
               /\ 500 < w.vif.h /\ w.vif.h < 1000 => w.status = "moderate"
               /\ w.vif.h = 1000 => w.status \in {"moderate", "high"}
               /\ w.vif.h > 1000 => w.status = "high"

\* a column with a reported vif of 5.00 was given the status 'acceptable'
C15_Witness ==
  /\ Diagnosed
  /\ \E i \in 1..Len(diagnostics.multicollinearity) :
       /\ diagnostics.multicollinearity[i].vif = Hundredths(500)
       /\ diagnostics.multicollinearity[i].status = "acceptable"

StartsWith(str, prefix) ==
  Len(str) >= Len(prefix) /\ SubSeq(str, 1, Len(prefix)) = prefix

\* the interpretation reads strength, then direction
Reads(entry, strengths, direction) ==
  \E strength \in strengths :
    StartsWith(entry.interpretation, strength \o " " \o direction \o " ")

\* numeric columns i and j are perfectly anti-correlated: their values lie
\* on one line of negative slope
AntiCorrelated(i, j) ==
  LET x == getNumericValues(keys, data, NumericColumns[i])
      y == getNumericValues(keys, data, NumericColumns[j])
      n == Len(x)
  IN  /\ n = Len(data) /\ Len(y) = n
      /\ \E r1, r2 \in 1..n : x[r1] # x[r2]
      /\ \A r1, r2 \in 1..n :
           /\ x[r1] # x[r2] => (x[r1] - x[r2]) * (y[r1] - y[r2]) < 0
           /\ x[r1] = x[r2] => y[r1] = y[r2]
           /\ (y[r1] - y[1]) * (x[r2] - x[1]) = (y[r2] - y[1]) * (x[r1] - x[1])

Detected == pc = "detected"
Trained == pc = "trained"

TargetNames ==
  {"target", "label", "class", "y", "outcome", "result", "churn", "fraud",
   "default", "survived", "price", "sales", "revenue"}

\* the profiled columns with a target name, and the binary categorical ones
NameMatching ==
  {k \in 1..Len(profiles) : toLowerCase(profiles[k].column) \in TargetNames}
BinaryCategorical ==
  {k \in 1..Len(profiles) :
     profiles[k].detectedType = "categorical" /\ profiles[k].uniqueValues = 2}

\* the lowercase value set of the k-th profiled column
LowerValueSet(k) ==
  LET c == IndexOf(keys, profiles[k].column)
  IN  {toLowerCase(jsString(data[i][c])) : i \in {j \in 1..Len(data) : Present(data[j][c])}}

PreferredBinary ==
  {k \in BinaryCategorical :
     LowerValueSet(k) \in {{"yes", "no"}, {"true", "false"}, {"1", "0"}}}

First(S) == CHOOSE k \in S : \A j \in S : k <= j

\* C17: autoDetectTarget applies its strategies in strict priority: a column
\* with a target name if there is one; otherwise, if there are categorical
\* columns with exactly 2 unique values, the first of them whose lowercase
\* value set is {yes,no}, {true,false} or {1,0}, else the first of them;
\* otherwise the last profiled column if it is categorical or discrete;
\* otherwise no target.  For columns [age, income, churn] with churn in
\* {Yes, No} the target is churn and the task type is classification.
C17_TargetByPriority ==
  Detected =>
    LET target == detection.targetColumn
        n == Len(profiles)
    IN  /\ IF NameMatching # {}
           THEN \E k \in NameMatching : target = Str(profiles[k].column)
           ELSE IF BinaryCategorical # {}
           THEN IF PreferredBinary # {}
                THEN target = Str(profiles[First(PreferredBinary)].column)
                ELSE target = Str(profiles[First(BinaryCategorical)].column)
           ELSE IF n > 0 /\ profiles[n].detectedType \in {"categorical", "discrete"}
           THEN target = Str(profiles[n].column)
           ELSE target = Null
        /\ ( /\ keys = <<"age", "income", "churn">>
             /\ {data[i][3] : i \in 1..Len(data)} = {Str("Yes"), Str("No")} )
           => target = Str("churn") /\ detection.taskType = "classification"

\* no column has a target name and the binary categorical column that is
\* detected is not the first one
C17_Witness ==
  /\ Detected
  /\ NameMatching = {}
  /\ PreferredBinary # {}
  /\ First(PreferredBinary) > First(BinaryCategorical)
  /\ detection.targetColumn = Str(profiles[First(PreferredBinary)].column)

\* the continuous and discrete columns, in profile order
NumericProfiled ==
  LET isNumeric(col) == IsNumericType(col)
      name(col) == col.column
  IN  Map(Filter(profiles, isNumeric), name)

ClusteringResult ==
  /\ predictive # Null
  /\ predictive.targetColumn = "none"
  /\ predictive.targetType = "clustering"
  /\ predictive.featuresUsed = NumericProfiled
  /\ predictive.featureImportance = <<>>

\* C18 as stated: whenever autoDetectTarget finds no target,
\* trainBaselineModel returns a clustering result (targetColumn 'none',
\* targetType 'clustering', featuresUsed the continuous and discrete
\* columns, no featureImportance) and never null, for every dataset and
\* profile.
C18_ClusteringWhenNoTarget ==
  Trained /\ autoDetectTarget(keys, data, profiles) = Null => ClusteringResult

\* C18, amended: the same for the datasets of at least 10 rows; with fewer
\* rows trainBaselineModel returns null, whether there is a target or not.
C18_ClusteringWhenNoTargetAndEnoughRows ==
  Trained =>
    /\ Len(data) >= 10 /\ autoDetectTarget(keys, data, profiles) = Null
         => ClusteringResult
    /\ Len(data) < 10 => predictive = Null

\* a dataset of 10 rows or more without a target was clustered on its
\* numeric columns, which are not all its columns
C18_Witness ==
  /\ Trained
  /\ Len(data) >= 10
  /\ autoDetectTarget(keys, data, profiles) = Null
  /\ ClusteringResult
  /\ Len(predictive.featuresUsed) > 0
  /\ Len(predictive.featuresUsed) < Len(profiles)

Supervised ==
  Trained /\ predictive # Null
    /\ predictive.targetType \in {"classification", "regression"}

Occurrences(seq, x) == Cardinality({i \in 1..Len(seq) : seq[i] = x})

\* C19: in every classification or regression result featuresUsed is the
\* profiled columns other than the target whose type is neither datetime
\* nor unknown, in profile order; the target is neither in featuresUsed nor
\* in featureImportance, and every feature of featureImportance is in
\* featuresUsed exactly once.
C19_FeaturesUsed ==
  Supervised =>
    LET usable(col) ==
          /\ col.column # predictive.targetColumn
          /\ col.detectedType \notin {"datetime", "unknown"}
        name(col) == col.column
        feature(f) == f.feature
        ranked == Map(predictive.featureImportance, feature)
    IN  /\ predictive.featuresUsed = Map(Filter(profiles, usable), name)
        /\ ~Includes(predictive.featuresUsed, predictive.targetColumn)
        /\ ~Includes(ranked, predictive.targetColumn)
        /\ \A i \in 1..Len(ranked) :
             Occurrences(predictive.featuresUsed, ranked[i]) = 1

\* a model was trained on two features, leaving out the target and a column
\* of datetime or unknown type
C19_Witness ==
  /\ Supervised
  /\ Len(predictive.featuresUsed) = 2
  /\ Len(predictive.featureImportance) = 2
  /\ \E k \in 1..Len(profiles) :
       /\ profiles[k].detectedType \in {"datetime", "unknown"}
       /\ profiles[k].column # predictive.targetColumn

\* the sum of the reported importances, in hundredths
ImportanceSum == totalFrom(predictive.featureImportance, 1, 0)

NonIncreasing ==
  \A i \in 1..(Len(predictive.featureImportance) - 1) :
    predictive.featureImportance[i].importance
      >= predictive.featureImportance[i + 1].importance

Classification == Supervised /\ predictive.targetType = "classification"

\* the distinct values of the target column, missing cells left out
TargetClasses ==
  LET c == IndexOf(keys, predictive.targetColumn)
  IN  {data[i][c] : i \in {j \in 1..Len(data) : Present(data[j][c])}}

\* the cells of the target column, a missing cell being a value of its own
TargetCells ==
  LET c == IndexOf(keys, predictive.targetColumn)
  IN  {data[i][c] : i \in 1..Len(data)}

\* a 2 x 2 matrix of non-negative integers that sum to floor(0.2 * rows),
\* with TN + TP = floor(testSize * accuracy) for a simulated accuracy that
\* rounds to the reported one, TP = floor(0.4 * correct) and
\* FP = floor(0.6 * incorrect)
WellFormedMatrix ==
  LET cm == predictive.confusionMatrix
      testSize == Len(data) \div 5
      correct == cm[1][1] + cm[2][2]
      incorrect == cm[1][2] + cm[2][1]
      reported == predictive.metrics.accuracy
  IN  /\ Len(cm) = 2 /\ Len(cm[1]) = 2 /\ Len(cm[2]) = 2
      /\ \A i, j \in 1..2 : cm[i][j] \in Nat
      /\ correct + incorrect = testSize
      /\ \E accuracy \in (20 * reported - 10)..(20 * reported + 9) :
           /\ 15000 <= accuracy /\ accuracy < 18000
           /\ correct = (testSize * accuracy) \div 20000
      /\ cm[2][2] = (4 * correct) \div 10
      /\ cm[1][2] = (6 * incorrect) \div 10

Stages == <<"cleaning", "columnTypes", "descriptive", "diagnostic", "predictive", "prescriptive">>

\* How a call of a stage route can end: with the stage's result, with its
\* empty result (no numeric columns, no trainable model, no insight), with
\* an exception inside the route, or without any response (the fetch
\* rejects, or the body is not JSON).
Outcomes == {"result", "empty", "failure", "unreachable"}

\* the HTTP status of a stage route: 500 from its catch block, 400 when
\* trainBaselineModel returns null, 200 otherwise
statusOf(stage, outcome) ==
  IF outcome = "failure" THEN 500
  ELSE IF outcome = "empty" /\ stage = "predictive" THEN 400
  ELSE 200

\* api.<stage>(...): fetchWithRetry throws an ApiError unless response.ok
apiThrows(stage, outcome) ==
  outcome = "unreachable" \/ statusOf(stage, outcome) \notin 200..299

AllFalse == [s \in Range(Stages) \union {"upload"} |-> FALSE]

NotRun == [s \in Range(Stages) |-> "none"]

InitPipeline ==
  /\ pc = "start"
  /\ keys = <<>>
  /\ data = <<>>
  /\ result = None
  /\ second = None
  /\ profiles = <<>>
  /\ values = <<>>
  /\ clipResult = None
  /\ diagnostics = None
  /\ predictive = None
  /\ detection = None
  /\ descriptive = None
  /\ prescriptive = None
  /\ endpoint = None
  /\ request = None
  /\ \/ /\ store = [rawData |-> 0, analyzing |-> FALSE, pipelineError |-> FALSE,
                    pc |-> "idle", step |-> 0, loading |-> AllFalse,
                    pipelineStatus |-> AllFalse, called |-> {}, raised |-> {},
                    stored |-> {}, outcome |-> NotRun]
        /\ analysis = None
     \/ /\ store = None
        /\ \E d, p \in BOOLEAN :
             analysis = [pc |-> "received", data |-> d, columnProfile |-> p,
                         step |-> 0, results |-> NotRun, called |-> {},
                         outcome |-> NotRun, status |-> 0]

\* the upload page hands the parsed file to the store
HandleUploadComplete ==
  /\ store # None
  /\ store.rawData = 0
  /\ store' = [store EXCEPT !.rawData = 1, !.pipelineStatus["upload"] = TRUE]
  /\ UNCHANGED <<pc, keys, data, result, second, profiles, values, clipResult,
                 diagnostics, predictive, detection, analysis, endpoint, request,
                 descriptive, prescriptive>>

\* runAnalysisPipeline is entered: by the effect that follows the upload, or
\* by the Retry button shown with a pipeline error
RunAnalysisPipeline ==
  /\ store # None
  /\ store.pc \in {"idle", "finished"}
  /\ \/ store.pc = "idle" /\ ~store.pipelineStatus["cleaning"] /\ ~store.analyzing
     \/ store.pipelineError
  /\ store.rawData > 0
  /\ store' = [store EXCEPT !.analyzing = TRUE, !.pipelineError = FALSE,
                            !.pc = "running", !.step = 1, !.called = {},
                            !.raised = {}, !.stored = {}, !.outcome = NotRun]
  /\ UNCHANGED <<pc, keys, data, result, second, profiles, values, clipResult,
                 diagnostics, predictive, detection, analysis, endpoint, request,
                 descriptive, prescriptive>>

\* store.setLoading(stage, true) and the call of api.<stage>
CallStage ==
  /\ store # None
  /\ store.pc = "running"
  /\ LET stage == Stages[store.step]
     IN  store' = [store EXCEPT !.loading[stage] = TRUE, !.pc = "awaiting",
                                !.called = @ \union {stage},
                                !.raised = @ \union {stage}]
  /\ UNCHANGED <<pc, keys, data, result, second, profiles, values, clipResult,
                 diagnostics, predictive, detection, analysis, endpoint, request,
                 descriptive, prescriptive>>

\* the awaited call settles: the result is stored and the stage marked
\* complete, or the call throws, into the catch of the stage (steps 5 and 6)
\* or into the catch of the run (steps 1 to 4)
StageSettles ==
  /\ store # None
  /\ store.pc = "awaiting"
  /\ LET stage == Stages[store.step]
         last == store.step = Len(Stages)
         after(s) == [s EXCEPT !.loading[stage] = FALSE,
                               !.pc = IF last THEN "finished" ELSE "running",
                               !.step = IF last THEN 0 ELSE @ + 1,
                               !.analyzing = IF last THEN FALSE ELSE @]
     IN  \E outcome \in IF stage = "cleaning" THEN Outcomes \ {"empty"} ELSE Outcomes :
           LET settled == [store EXCEPT !.outcome[stage] = outcome]
           IN  store' =
                 IF ~apiThrows(stage, outcome)
                 THEN after([settled EXCEPT !.stored = @ \union {stage},
                                            !.pipelineStatus[stage] = TRUE])
                 ELSE IF store.step >= 5
                 THEN after(settled)
                 ELSE [settled EXCEPT !.pipelineError = TRUE, !.analyzing = FALSE,
                                      !.pc = "finished", !.step = 0]
  /\ UNCHANGED <<pc, keys, data, result, second, profiles, values, clipResult,
                 diagnostics, predictive, detection, analysis, endpoint, request,
                 descriptive, prescriptive>>

\* POST /api/analyze: the parameters are checked
AnalyzeRequest ==
  /\ analysis # None
  /\ analysis.pc = "received"
  /\ analysis' = IF ~analysis.data \/ ~analysis.columnProfile
                 THEN [analysis EXCEPT !.pc = "responded", !.status = 400]
                 ELSE [analysis EXCEPT !.pc = "running", !.step = 1]
  /\ UNCHANGED <<pc, keys, data, result, second, profiles, values, clipResult,
                 diagnostics, predictive, detection, store, endpoint, request,
                 descriptive, prescriptive>>

\* POST /api/analyze: one stage is fetched and its body kept, whatever its
\* status; a fetch that rejects or a body that is not JSON ends the handler
\* in its catch block
AnalyzeStage ==
  /\ analysis # None
  /\ analysis.pc = "running"
  /\ LET stage == Stages[analysis.step]
         last == analysis.step = Len(Stages)
     IN  \E outcome \in Outcomes :
           LET fetched == [analysis EXCEPT !.called = @ \union {stage},
                                           !.outcome[stage] = outcome]
           IN  analysis' =
                 IF outcome = "unreachable"
                 THEN [fetched EXCEPT !.pc = "responded", !.status = 500]
                 ELSE [fetched EXCEPT !.results[stage] = outcome,
                                      !.pc = IF last THEN "responded" ELSE @,
                                      !.status = IF last THEN 200 ELSE @,
                                      !.step = IF last THEN 0 ELSE @ + 1]
  /\ UNCHANGED <<pc, keys, data, result, second, profiles, values, clipResult,
                 diagnostics, predictive, detection, store, endpoint, request,
                 descriptive, prescriptive>>

NextPipeline ==
  \/ HandleUploadComplete
  \/ RunAnalysisPipeline
  \/ CallStage
  \/ StageSettles
  \/ AnalyzeRequest
  \/ AnalyzeStage

SpecPipeline == InitPipeline /\ [][NextPipeline]_vars

\* the three analytic tiers that follow the descriptive one
Tiers == {"diagnostic", "predictive", "prescriptive"}

\* a run of the overview page, or a request to /api/analyze, has ended
\* after one of the three tiers failed or came back empty
TierFailed(run) ==
  \E s \in Tiers : run.outcome[s] \in {"empty", "failure", "unreachable"}

\* C22: in every execution of the analysis pipeline (runAnalysisPipeline and
\* the /api/analyze route), a failure or empty result of one of the
\* diagnostic, predictive and prescriptive stages does not prevent the other
\* two of those stages from being run.
C22_TiersRunIndependently ==
  /\ (store # None /\ store.pc = "finished" /\ TierFailed(store))
       => Tiers \subseteq store.called
  /\ (analysis # None /\ analysis.pc = "responded" /\ TierFailed(analysis))
       => Tiers \subseteq analysis.called

\* C30: after runAnalysisPipeline finishes, every loading flag it set to
\* true is false again, and a completion flag is true only if the stage's
\* result was stored in the same run.
C30_FlagsSettledAfterRun ==
  (store # None /\ store.pc = "finished") =>
    /\ \A s \in store.raised : ~store.loading[s]
    /\ \A s \in Range(Stages) : store.pipelineStatus[s] => s \in store.stored

(***************************************************************************)
(* fetchWithRetry of the api client.  An error is kept as its name and      *)
(* whether its message contains the word "fetch", the two things the catch *)
(* block looks at.                                                         *)
(***************************************************************************)
MAX_RETRIES == 2

ApiError(message, statusCode) == [name |-> "ApiError", message |-> message, statusCode |-> statusCode]

\* the errors a rejected fetch or a rejected body read can carry
Rejections == [name : {"TypeError"}, fetchInMessage : BOOLEAN]

\* a body that is not JSON: the message of the SyntaxError depends on the
\* engine and may quote the body
ParseErrors == [name : {"SyntaxError"}, fetchInMessage : BOOLEAN]

InitFetch ==
  /\ pc = "start"
  /\ keys = <<>>
  /\ data = <<>>
  /\ result = None
  /\ second = None
  /\ profiles = <<>>
  /\ values = <<>>
  /\ clipResult = None
  /\ diagnostics = None
  /\ predictive = None
  /\ detection = None
  /\ descriptive = None
  /\ prescriptive = None
  /\ store = None
  /\ analysis = None
  /\ endpoint = None
  /\ request = [pc |-> "fetching", retries |-> MAX_RETRIES, attempts |-> 1,
                timer |-> TRUE, log |-> <<>>, settled |-> None]

\* the catch block: what becomes of the request when error err is caught
\* after the response (if any) of kind after
catch(err, after) ==
  LET logged == [request EXCEPT !.timer = FALSE,
                                !.log = Append(@, [after |-> after, error |-> err.name])]
      again == [logged EXCEPT !.pc = "sleeping"]
      throw(e) == [logged EXCEPT !.pc = "thrown", !.settled = e]
  IN  IF err.name = "ApiError" THEN throw(err)
      ELSE IF err.name = "AbortError"
      THEN IF request.retries > 0 THEN again
           ELSE throw(ApiError("Request timed out", 408))
      ELSE IF request.retries > 0 /\ err.fetchInMessage THEN again
      ELSE throw(ApiError("err.message || 'Network error'", "undefined"))

\* await fetch(url, fetchOptions) settles: with a response, with the abort
\* of the timer, or with a network error
FetchSettles ==
  /\ request # None
  /\ request.pc = "fetching"
  /\ \/ \E ok \in BOOLEAN :
          request' = [request EXCEPT !.timer = FALSE,
                                     !.pc = IF ok THEN "json" ELSE "text"]
     \/ request' = catch([name |-> "AbortError"], "none")
     \/ \E err \in Rejections : request' = catch(err, "none")
  /\ UNCHANGED <<pc, keys, data, result, second, profiles, values, clipResult,
                 diagnostics, predictive, detection, store, analysis, endpoint,
                 descriptive, prescriptive>>

\* await response.text() of a response that is not OK settles: the ApiError
\* with the status is thrown, or the read fails
ReadText ==
  /\ request # None
  /\ request.pc = "text"
  /\ \/ request' = catch(ApiError("parsed.error || parsed.message || errorBody", "response.status"), "notOk")
     \/ \E err \in Rejections : request' = catch(err, "notOk")
  /\ UNCHANGED <<pc, keys, data, result, second, profiles, values, clipResult,
                 diagnostics, predictive, detection, store, analysis, endpoint,
                 descriptive, prescriptive>>

\* await response.json() of an OK response settles
ReadJson ==
  /\ request # None
  /\ request.pc = "json"
  /\ \/ request' = [request EXCEPT !.pc = "returned", !.settled = "parsed"]
     \/ \E err \in Rejections \union ParseErrors : request' = catch(err, "ok")
  /\ UNCHANGED <<pc, keys, data, result, second, profiles, values, clipResult,
                 diagnostics, predictive, detection, store, analysis, endpoint,
                 descriptive, prescriptive>>

\* await sleep(1000) ends and fetchWithRetry calls itself with retries - 1
Retry ==
  /\ request # None
  /\ request.pc = "sleeping"
  /\ request' = [request EXCEPT !.pc = "fetching", !.retries = @ - 1,
                                !.attempts = @ + 1, !.timer = TRUE]
  /\ UNCHANGED <<pc, keys, data, result, second, profiles, values, clipResult,
                 diagnostics, predictive, detection, store, analysis, endpoint,
                 descriptive, prescriptive>>

NextFetch == FetchSettles \/ ReadText \/ ReadJson \/ Retry

\* The timer aborts a fetch that has not answered, and a sleep ends; once
\* the response has arrived the timer is cleared and nothing bounds the read
\* of the body.
SpecFetch ==
  /\ InitFetch
  /\ [][NextFetch]_vars
  /\ WF_vars(FetchSettles)
  /\ WF_vars(Retry)

\* C27: fetchWithRetry always terminates, with the parsed response or with
\* an ApiError, after at most 3 attempts; it retries only after a
\* timeout/abort or a network error, never after a non-OK HTTP response, and
\* a request that times out on every attempt ends with ApiError 'Request
\* timed out' (408).
C27_TerminatesWithinThreeAttempts ==
  /\ <>(request.pc \in {"returned", "thrown"})
  /\ [](request.attempts <= MAX_RETRIES + 1)
  /\ [](\A i \in 1..Len(request.log) :
          i < request.attempts =>
            request.log[i].error \in {"AbortError", "TypeError"})
  /\ []((request.pc = "thrown" /\ \A i \in 1..Len(request.log) : request.log[i].error = "AbortError")
           => request.settled = ApiError("Request timed out", 408))

(***************************************************************************)
(* POST /api/column-types with the Python backend in front of the          *)
(* TypeScript classifier.                                                  *)
(***************************************************************************)
\* what the request body holds as data: nothing, something that is no
\* array, an array of rows, or an array whose first element is null
Given == {"missing", "notArray", "rows", "nullRow"}

\* how callPythonBackend and the use of its result can end: a result with a
\* columnProfile, a result without one, the JSON value null, a response that
\* is not OK, a body that is not JSON, a network error or the 30 s timeout
PythonOutcomes == {"profile", "noProfile", "null", "notOk", "badJson", "rejected"}

InitColumnTypes ==
  /\ pc = "start"
  /\ result = None
  /\ second = None
  /\ profiles = <<>>
  /\ values = <<>>
  /\ clipResult = None
  /\ diagnostics = None
  /\ predictive = None
  /\ detection = None
  /\ descriptive = None
  /\ prescriptive = None
  /\ store = None
  /\ analysis = None
  /\ request = None
  /\ \E given \in Given :
       /\ IF given = "rows"
          THEN \E d \in Free1 : keys = d.keys /\ data = d.rows
          ELSE keys = <<>> /\ data = <<>>
       /\ endpoint = [pc |-> "received", given |-> given, pythonAvailable |-> "unknown",
                      python |-> "none", consulted |-> <<>>, status |-> 0,
                      body |-> None]

\* the check of the request body
ColumnTypesRequest ==
  /\ endpoint # None
  /\ endpoint.pc = "received"
  /\ endpoint' =
       IF endpoint.given \in {"missing", "notArray"} \/ (endpoint.given = "rows" /\ Len(data) = 0)
       THEN [endpoint EXCEPT !.pc = "responded", !.status = 400,
                             !.body = [error |-> "Invalid data provided"]]
       ELSE [endpoint EXCEPT !.pc = "probing"]
  /\ UNCHANGED <<pc, keys, data, result, second, profiles, values, clipResult,
                 diagnostics, predictive, detection, store, analysis, request,
                 descriptive, prescriptive>>

\* await isPythonBackendAvailable(): response.ok, or false when the fetch
\* rejects or times out
IsPythonBackendAvailable ==
  /\ endpoint # None
  /\ endpoint.pc = "probing"
  /\ \E answer \in {"ok", "notOk", "rejected"} :
       endpoint' = [endpoint EXCEPT !.pythonAvailable = (answer = "ok"),
                                    !.pc = IF answer = "ok" THEN "python" ELSE "typescript"]
  /\ UNCHANGED <<pc, keys, data, result, second, profiles, values, clipResult,
                 diagnostics, predictive, detection, store, analysis, request,
                 descriptive, prescriptive>>

\* the same without the catch around the Python call
CallPythonBackendUncaught ==
  /\ endpoint # None
  /\ endpoint.pc = "python"
  /\ \E outcome \in PythonOutcomes :
       LET called == [endpoint EXCEPT !.python = outcome, !.consulted = Append(@, "python")]
       IN  endpoint' =
             IF outcome = "profile"
             THEN [called EXCEPT !.pc = "responded", !.status = 200,
                                 !.body = [source |-> "python"]]
             ELSE [called EXCEPT !.pc = "responded", !.status = 500,
                                 !.body = [error |-> "error.message"]]
  /\ UNCHANGED <<pc, keys, data, result, second, profiles, values, clipResult,
                 diagnostics, predictive, detection, store, analysis, request,
                 descriptive, prescriptive>>

\* the try block around callPythonBackend: its result answers the request,
\* or whatever is thrown is caught and the handler goes on.  A result
\* without a columnProfile hands undefined to NextResponse.json, which
\* throws or answers with an empty body, depending on the framework.
CallPythonBackend ==
  /\ endpoint # None
  /\ endpoint.pc = "python"
  /\ \E outcome \in PythonOutcomes, jsonThrows \in BOOLEAN :
       LET called == [endpoint EXCEPT !.python = outcome, !.consulted = Append(@, "python")]
       IN  endpoint' =
             IF outcome = "profile" \/ (outcome = "noProfile" /\ ~jsonThrows)
             THEN [called EXCEPT !.pc = "responded", !.status = 200,
                                 !.body = [source |-> "python"]]
             ELSE [called EXCEPT !.pc = "typescript"]
  /\ UNCHANGED <<pc, keys, data, result, second, profiles, values, clipResult,
                 diagnostics, predictive, detection, store, analysis, request,
                 descriptive, prescriptive>>

\* classifyColumns(data) of lib/columnClassifier and the response; an
\* exception (Object.keys of a null row) goes to the catch of the handler
ClassifyFallback ==
  /\ endpoint # None
  /\ endpoint.pc = "typescript"
  /\ LET called == [endpoint EXCEPT !.consulted = Append(@, "typescript"), !.pc = "responded"]
     IN  endpoint' =
           IF endpoint.given = "nullRow"
           THEN [called EXCEPT !.status = 500, !.body = [error |-> "error.message"]]
           ELSE [called EXCEPT !.status = 200,
                               !.body = [source |-> "typescript",
                                         columnProfile |-> classifyColumnsSimple(keys, data)]]
  /\ UNCHANGED <<pc, keys, data, result, second, profiles, values, clipResult,
                 diagnostics, predictive, detection, store, analysis, request,
                 descriptive, prescriptive>>

NextColumnTypes ==
  \/ ColumnTypesRequest
  \/ IsPythonBackendAvailable
  \/ CallPythonBackend
  \/ ClassifyFallback

SpecColumnTypes == InitColumnTypes /\ [][NextColumnTypes]_vars

\* the request carried a non-empty array and has been answered
Answered ==
  /\ endpoint # None
  /\ endpoint.pc = "responded"
  /\ endpoint.given = "nullRow" \/ (endpoint.given = "rows" /\ Len(data) > 0)

\* the Python call succeeded: the try block ended with its response
PythonSucceeded ==
  endpoint.python = "profile" \/ (endpoint.python = "noProfile" /\ endpoint.consulted = <<"python">>)

\* C24: given a non-empty data array, the column-types endpoint tries the
\* Python backend first and falls back to the TypeScript classifier whenever
\* the backend is unavailable or its call fails: a Python failure alone never
\* produces an error response, and the TypeScript classifier is not
\* consulted when the Python call succeeds.
C24_PythonFirstThenTypeScript ==
  Answered =>
    /\ endpoint.pythonAvailable \in BOOLEAN
    /\ endpoint.consulted \in {<<"python">>, <<"typescript">>, <<"python", "typescript">>}
    /\ endpoint.pythonAvailable <=> endpoint.consulted[1] = "python"
    /\ (endpoint.consulted = <<"python">>) <=> (endpoint.pythonAvailable /\ PythonSucceeded)
    /\ endpoint.consulted = <<"python">> => endpoint.status = 200 /\ endpoint.body = [source |-> "python"]
    /\ endpoint.status # 200 =>
         /\ endpoint.given = "nullRow"
         /\ endpoint.consulted[Len(endpoint.consulted)] = "typescript"
    /\ (endpoint.given = "rows" /\ endpoint.consulted # <<"python">>) =>
         /\ endpoint.status = 200
         /\ endpoint.body = [source |-> "typescript",
                             columnProfile |-> classifyColumnsSimple(keys, data)]

\* the Python backend was available, its call failed and the answer is the
\* profile of the TypeScript classifier
C24_Witness ==
  /\ Answered
  /\ endpoint.pythonAvailable = TRUE
  /\ endpoint.python \in {"notOk", "rejected"}
  /\ endpoint.consulted = <<"python", "typescript">>
  /\ endpoint.status = 200
  /\ Len(endpoint.body.columnProfile) = 1

(***************************************************************************)
(* Further properties of cleanDataset.                                     *)
(***************************************************************************)
ClippingEntries(log, col) ==
  SelectSeq(log, LAMBDA e : e.action = "Outlier clipping" /\ e.column = col)

RemovedEntries(log, col) ==
  SelectSeq(log, LAMBDA e : e.action = "Removed" /\ e.column = col)

\* a value moved to the nearest of two finite bounds
Clip(v, lower, upper) == IF v < lower THEN lower ELSE IF v > upper THEN upper ELSE v

\* C25: in a column that cleanDataset clips every numeric cell receives the
\* clipped version of its own value; the cells of that column that are
\* missing or not numeric-coercible, and all cells of every other column,
\* are left unchanged.
C25_ClippedValuesStayInTheirRows ==
  Cleaned =>
    \A k \in 1..Len(result.keys) :
      LET ks == result.keys
          col == ks[k]
          old == Column(ks, AfterMissing.cleaned, col)
          new == Column(ks, result.cleanedData, col)
          d == detectOutliersIQR(getNumericValues(ks, AfterMissing.cleaned, col))
          entries == ClippingEntries(result.cleaningLog, col)
      IN  /\ Len(new) = Len(old)
          /\ Len(entries) <= 1
          /\ IF entries # <<>>
             THEN /\ d.lower.inf = 0 /\ d.upper.inf = 0
                  /\ \A i \in 1..Len(old) :
                       new[i] = IF Present(old[i]) /\ IsNumeric(old[i])
                                THEN Num(Clip(ToNumber(old[i]).n, d.lower.n, d.upper.n))
                                ELSE old[i]
             ELSE new = old

\* a column was clipped in which a cell that is no number stands before the
\* numbers
C25_Witness ==
  /\ pc = "cleaned"
  /\ \E k \in 1..Len(result.keys) :
       LET old == Column(result.keys, AfterMissing.cleaned, result.keys[k])
           new == Column(result.keys, result.cleanedData, result.keys[k])
       IN  /\ ClippingEntries(result.cleaningLog, result.keys[k]) # <<>>
           /\ old[1] = Str("x") /\ new[1] = Str("x")
           /\ \E i \in 2..Len(old) : new[i] # old[i]

\* C26: every column removed by cleanDataset is logged by exactly one
\* 'Removed' action (a column that is both ID-like and constant only as
\* ID-like), is absent from every row of cleanedData, and every column not
\* logged as removed is present; a column that is not removed as ID-like is
\* removed as constant exactly when its non-null values have one distinct
\* member or it has no non-null values.
C26_RemovedColumnsLoggedOnce ==
  Cleaned =>
    /\ \A i \in 1..Len(result.cleanedData) : Len(result.cleanedData[i]) = Len(result.keys)
    /\ result.keys = SelectSeq(keys, LAMBDA c : RemovedEntries(result.cleaningLog, c) = <<>>)
    /\ \A k \in 1..Len(keys) :
         LET c == Column(keys, data, keys[k])
             nonNull == {c[i] : i \in {j \in 1..Len(c) : c[j].t # "null"}}
             entries == RemovedEntries(result.cleaningLog, keys[k])
         IN  /\ Len(entries) <= 1
             /\ ~Includes(result.keys, keys[k]) <=> Len(entries) = 1
             /\ ~IdLikeLogged(result.cleaningLog, keys[k]) =>
                  (Cardinality(nonNull) <= 1 <=>
                     /\ entries # <<>>
                     /\ entries[1].reason = "Constant column (single unique value)")

\* a column that is ID-like and constant was logged once, as ID-like, beside
\* a column removed as constant
C26_Witness ==
  /\ pc = "cleaned"
  /\ Len(keys) = 2
  /\ result.keys = <<>>
  /\ isConstantColumn(keys, data, keys[1])
  /\ IdLikeLogged(result.cleaningLog, keys[1])
  /\ Len(result.cleaningLog) = 2
  /\ result.cleaningLog[2].reason = "Constant column (single unique value)"

\* C28: after cleanDataset returns, no cell of any remaining column is
\* missing (null, undefined or the empty string) in any row of cleanedData:
\* every column that had only missing values has been removed and every
\* other missing cell has been imputed with a non-missing value.
C28_NoMissingCellRemains ==
  Cleaned =>
    /\ \A i \in 1..Len(result.cleanedData) :
         \A j \in 1..Len(result.keys) :
           /\ result.cleanedData[i][j].t # "null"
           /\ result.cleanedData[i][j] # Str("")
    /\ \A k \in 1..Len(keys) :
         (\A i \in 1..Len(data) : data[i][k].t = "null" \/ data[i][k] = Str(""))
           => ~Includes(result.keys, keys[k])

\* a column of missing cells only was removed and a missing cell of the
\* other column was imputed
C28_Witness ==
  /\ pc = "cleaned"
  /\ Len(keys) = 2
  /\ Len(result.keys) = 1
  /\ \E k \in 1..2 :
       /\ \A i \in 1..Len(data) : ~Present(data[i][k])
       /\ \E i \in 1..Len(data) : data[i][3 - k] = Str("")
  /\ result.missingSummary # <<>>

\* C29: after.rows = before.rows minus the rowsAffected of the 'Remove
\* duplicates' action (0 if absent) and equals cleanedData's length,
\* after.columns = before.columns minus the number of 'Removed' actions, and
\* the column removal, imputation and clipping stages never add, drop or
\* reorder rows: row i of cleanedData holds the cells of the i-th
\* deduplicated row, removed columns left out, imputed and clipped cells
\* apart.
C29_CountsAgreeWithLog ==
  Cleaned =>
    LET log == result.cleaningLog
        dups == DuplicateEntries(log)
        dropped == IF dups = <<>> THEN 0 ELSE dups[1].rowsAffected
        removals == SelectSeq(log, LAMBDA e : e.action = "Removed")
        deduped == FirstOccurrences(data)
    IN  /\ result.before = [rows |-> Len(data), columns |-> Len(keys)]
        /\ Len(dups) <= 1
        /\ result.after.rows = result.before.rows - dropped
        /\ result.after.rows = Len(result.cleanedData)
        /\ result.after.columns = result.before.columns - Len(removals)
        /\ result.after.columns = Len(result.keys)
        /\ Len(result.cleanedData) = Len(deduped)
        /\ \A i \in 1..Len(result.cleanedData) :
             \A j \in 1..Len(result.keys) :
               LET old == deduped[i][IndexOf(keys, result.keys[j])]
                   new == result.cleanedData[i][j]
               IN  \/ new = old
                   \/ ~Present(old)
                   \/ /\ IsNumeric(old)
                      /\ ClippingEntries(log, result.keys[j]) # <<>>

\* duplicates were dropped, a column was removed, and the rows that are left
\* differ from each other
C29_Witness ==
  /\ pc = "cleaned"
  /\ DuplicateEntries(result.cleaningLog) # <<>>
  /\ result.after.columns = 1
  /\ result.before.columns = 2
  /\ result.after.rows >= 3
  /\ \A i, j \in 1..Len(result.cleanedData) :
       i # j => result.cleanedData[i] # result.cleanedData[j]

(***************************************************************************)
(* The stage functions called one after the other, and again, on one       *)
(* dataset.  Of computeDescriptiveStats the model keeps the median, the     *)
(* minimum and the maximum of a numeric column and the number of categories *)
(* and the dominant category of a categorical one; of                       *)
(* generatePrescriptiveInsights the names and severities of the data        *)
(* quality risks and the names of the business levers.                     *)
(***************************************************************************)
\* Number(x.toFixed(2)) in hundredths, x a multiple of 1 / Scale (a tie is
\* exact and goes away from zero)
toFixed2Exact(n) == Sign(n) * ((2 * 100 * Abs(n) + Scale) \div (2 * Scale))

computeNumericStats(ks, rows, columnName) ==
  LET vals == getNumericValues(ks, rows, columnName)
      sorted == sortNumbers(vals)
  IN  IF Len(vals) = 0
      THEN [column |-> columnName, median |-> 0, min |-> 0, max |-> 0]
      ELSE [column |-> columnName,
            median |-> toFixed2Exact(median(vals).n),
            min |-> toFixed2Exact(sorted[1]),
            max |-> toFixed2Exact(sorted[Len(sorted)])]

computeCategoricalStats(ks, rows, columnName) ==
  LET vals == Filter(Column(ks, rows, columnName), Present)
      counts == distinctInOrder(vals, <<>>)
  IN  IF Len(vals) = 0
      THEN [column |-> columnName, uniqueCount |-> 0, dominantCategory |-> ""]
      ELSE [column |-> columnName, uniqueCount |-> Len(counts),
            dominantCategory |-> jsString(pickMode(counts, vals, Null, 0))]

computeDescriptiveStats(ks, rows, columnProfile) ==
  LET isNumericProfile(col) == col.detectedType \in {"continuous", "discrete"}
      isCategorical(col) == col.detectedType = "categorical"
      numericStats(col) == computeNumericStats(ks, rows, col.column)
      categoricalStats(col) == computeCategoricalStats(ks, rows, col.column)
  IN  [numeric |-> Map(Filter(columnProfile, isNumericProfile), numericStats),
       categorical |-> Map(Filter(columnProfile, isCategorical), categoricalStats)]

assessDataQualityRisks(ks, rows, columnProfile, predictiveResults) ==
  LET targetValues == Column(ks, rows, predictiveResults.targetColumn)
      count(v) == Cardinality({i \in 1..Len(targetValues) : targetValues[i] = v})
      classCounts == {count(v) : v \in Range(targetValues)}
      maxCount == CHOOSE c \in classCounts : \A d \in classCounts : d <= c
      minCount == CHOOSE c \in classCounts : \A d \in classCounts : c <= d
      Risk(risk, severity) == [risk |-> risk, severity |-> severity]
      highMissing(col) == col.missingPct > 5 * 100
      lowCardinality(col) == col.detectedType = "categorical" /\ col.uniqueValues <= 3
      veryHighCardinality(col) == col.detectedType = "categorical" /\ col.uniqueValues > 50
  IN  (IF predictiveResults # Null /\ predictiveResults.targetType = "classification"
          /\ maxCount > 2 * minCount
       THEN <<Risk("Class imbalance", IF maxCount > 5 * minCount THEN "high" ELSE "medium")>>
       ELSE <<>>)
      \o (IF CountIf(columnProfile, highMissing) > 0
          THEN <<Risk("High missing values", "medium")>> ELSE <<>>)
      \o (IF CountIf(columnProfile, lowCardinality) > 5
          THEN <<Risk("Many low-cardinality features", "low")>> ELSE <<>>)
      \o (IF CountIf(columnProfile, veryHighCardinality) > 0
          THEN <<Risk("High-cardinality categorical features", "medium")>> ELSE <<>>)

identifyBusinessLevers(predictiveResults, correlations) ==
  LET strong(c) == ~c.pearson.nan /\ Abs(c.pearson.h) > 60
      feature(f) == f.feature
      topFeatures == SubSeq(predictiveResults.featureImportance, 1,
                            IF Len(predictiveResults.featureImportance) < 3
                            THEN Len(predictiveResults.featureImportance) ELSE 3)
  IN  IF predictiveResults = Null THEN <<>>
      ELSE IF Len(predictiveResults.featureImportance) = 0 THEN <<>>
      ELSE Map(topFeatures, feature)
             \o (IF CountIf(correlations, strong) > 0
                 THEN <<"Correlated feature groups">> ELSE <<>>)

generatePrescriptiveInsights(ks, rows, columnProfile, predictiveResults, correlations) ==
  [dataQualityRisks |-> assessDataQualityRisks(ks, rows, columnProfile, predictiveResults),
   businessLevers |-> identifyBusinessLevers(predictiveResults, correlations)]

\* the datasets the stages are called on
StageDatasets ==
  TrainFour \cup
    {TrainDataset(<<<<"plan", "xy">>, <<"churn", "yesno">>>>, MaxTrain),
     TrainDataset(<<<<"age", "measure">>, <<"income", "count">>>>, MinRows - 1),
     TrainDataset(<<<<"age", "measure">>, <<"Price", "measure">>, <<"active", "truefalse">>>>, MaxTrain)}

InitStages ==
  /\ pc = "start"
  /\ \E d \in StageDatasets : keys = d.keys /\ data = d.rows
  /\ result = None
  /\ second = None
  /\ profiles = <<>>
  /\ values = <<>>
  /\ clipResult = None
  /\ diagnostics = None
  /\ predictive = None
  /\ detection = None
  /\ descriptive = None
  /\ prescriptive = None
  /\ store = None
  /\ analysis = None
  /\ endpoint = None
  /\ request = None

\* what a second call of a stage with the same arguments returned: the same
\* as the first call or not
Again(stage, before, after, agree) ==
  IF pc = stage THEN [stage |-> stage, equal |-> before = after, agree |-> agree]
  ELSE second

\* the same, the duplicate rows spliced out of the caller's array
CleanStageInPlace ==
  /\ pc \in {"start", "cleaning"}
  /\ result' = cleanDataset(keys, data)
  /\ data' = removeDuplicates(keys, data).data
  /\ second' = Again("cleaning", result, result', result = result')
  /\ pc' = "cleaning"
  /\ UNCHANGED <<keys, profiles, values, clipResult, diagnostics, predictive,
                 detection, descriptive, prescriptive, store, analysis, endpoint,
                 request>>

CleanStage ==
  /\ pc \in {"start", "cleaning"}
  /\ result' = cleanDataset(keys, data)
  /\ second' = Again("cleaning", result, result', result = result')
  /\ pc' = "cleaning"
  /\ UNCHANGED <<keys, data, profiles, values, clipResult, diagnostics, predictive,
                 detection, descriptive, prescriptive, store, analysis, endpoint,
                 request>>

ColumnTypesStage ==
  /\ pc \in {"cleaning", "columnTypes"}
  /\ profiles' = classifyColumnsSimple(keys, data)
  /\ second' = Again("columnTypes", profiles, profiles', profiles = profiles')
  /\ pc' = "columnTypes"
  /\ UNCHANGED <<keys, data, result, values, clipResult, diagnostics, predictive,
                 detection, descriptive, prescriptive, store, analysis, endpoint,
                 request>>

DescriptiveStage ==
  /\ pc \in {"columnTypes", "descriptive"}
  /\ descriptive' = computeDescriptiveStats(keys, data, profiles)
  /\ second' = Again("descriptive", descriptive, descriptive', descriptive = descriptive')
  /\ pc' = "descriptive"
  /\ UNCHANGED <<keys, data, result, profiles, values, clipResult, diagnostics,
                 predictive, detection, prescriptive, store, analysis, endpoint,
                 request>>

DiagnosticStage ==
  /\ pc \in {"descriptive", "diagnostic"}
  /\ diagnostics' = computeDiagnosticStats(keys, data, profiles)
  /\ second' = Again("diagnostic", diagnostics, diagnostics', diagnostics = diagnostics')
  /\ pc' = "diagnostic"
  /\ UNCHANGED <<keys, data, result, profiles, values, clipResult, predictive,
                 detection, descriptive, prescriptive, store, analysis, endpoint,
                 request>>

\* two results of trainBaselineModel agree in all that is not drawn from
\* Math.random
SameModel(a, b) ==
  \/ a = Null /\ b = Null
  \/ /\ a # Null /\ b # Null
     /\ a.targetColumn = b.targetColumn
     /\ a.targetType = b.targetType
     /\ a.modelType = b.modelType
     /\ a.featuresUsed = b.featuresUsed
     /\ {a.featureImportance[i].feature : i \in 1..Len(a.featureImportance)}
          = {b.featureImportance[i].feature : i \in 1..Len(b.featureImportance)}

PredictiveStage ==
  /\ pc \in {"diagnostic", "predictive"}
  /\ predictive' \in trainBaselineModel(keys, data, profiles)
  /\ second' = Again("predictive", predictive, predictive',
                     pc = "predictive" /\ SameModel(predictive, predictive'))
  /\ pc' = "predictive"
  /\ UNCHANGED <<keys, data, result, profiles, values, clipResult, diagnostics,
                 detection, descriptive, prescriptive, store, analysis, endpoint,
                 request>>

PrescriptiveStage ==
  /\ pc \in {"predictive", "prescriptive"}
  /\ prescriptive' = generatePrescriptiveInsights(keys, data, profiles, predictive,
                                                  diagnostics.correlations)
  /\ second' = Again("prescriptive", prescriptive, prescriptive',
                     prescriptive = prescriptive')
  /\ pc' = "prescriptive"
  /\ UNCHANGED <<keys, data, result, profiles, values, clipResult, diagnostics,
                 predictive, detection, descriptive, store, analysis, endpoint,
                 request>>

NextStages ==
  \/ CleanStage
  \/ ColumnTypesStage
  \/ DescriptiveStage
  \/ DiagnosticStage
  \/ PredictiveStage
  \/ PrescriptiveStage

SpecStages == InitStages /\ [][NextStages]_vars

\* a stage call leaves the caller's rows and the outputs of the other stages
\* as they were
InputsUnchanged ==
  /\ keys' = keys
  /\ data' = data
  /\ pc' # "cleaning" => result' = result
  /\ pc' # "columnTypes" => profiles' = profiles
  /\ pc' # "descriptive" => descriptive' = descriptive
  /\ pc' # "diagnostic" => diagnostics' = diagnostics
  /\ pc' # "predictive" => predictive' = predictive
  /\ pc' # "prescriptive" => prescriptive' = prescriptive

====
